---------------------------- MODULE Spec2Model ----------------------------
(***************************************************************************)
(* Model of gpu-demand-capacity-analytics: the metrics, the scoring, the  *)
(* aggregation and the ranking of src/analysis, and the scenarios, the     *)
(* nodepool generator and the validators of src/generators.                *)
(*                                                                         *)
(* A pandas Series is a sequence; a numeric cell is an exact rational      *)
(* <<n, d>> in lowest terms with d > 0.  A missing value (NaN) is <<0, 0>>,*)
(* and +inf / -inf are <<1, 0>> / <<-1, 0>>.  Every comparison with NaN is *)
(* false, as in Python.                                                    *)
(***************************************************************************)
EXTENDS Integers, Sequences, FiniteSets, TLC

VARIABLES
    pc,                 \* position of the call in progress: "call", the
                        \* name of the function to call next, or "done"
    raised,             \* exception raised by the call: "none" or "ValueError"
    df,                 \* the caller's DCGM table (sequence of rows)
    inplace,            \* add_efficiency_metrics' inplace argument
    out_df,             \* the table add_efficiency_metrics returns
    gpu_util,           \* classify_efficiency: utilization series
    pif,                \* classify_efficiency: PIF series
    efficiency_class,   \* classify_efficiency: returned labels
    s,                  \* normalize_series: input series
    method,             \* normalize_series: method argument
    window,             \* normalize_series: window argument (0 is None)
    normalized,         \* normalize_series: returned series
    pending_workloads,  \* calculate_queue_pressure_score: pending series
    wait_time_seconds,  \* calculate_queue_pressure_score: wait series
    qps,                \* queue pressure score series
    dcr,                \* demand-capacity ratio series
    efficiency_gap,     \* efficiency gap series
    cis,                \* composite imbalance score series
    severity,           \* classify_imbalance_severity: returned labels
    available_capacity, \* calculate_demand_capacity_ratio: capacity series
    kueue_df,           \* demand table (Kueue rows)
    dcgm_df,            \* efficiency table (DCGM rows with derived metrics)
    nodepool_df,        \* capacity table (nodepool rows)
    result,             \* the table a joining function returns
    entry,              \* the generator-side function that was called
    datasets,           \* the raw tables handed to the validators
    files,              \* the files written to the output directory
    message,            \* the message of the ValidationError raised
    returned,           \* whether the call returned its value
    imbalance_df,       \* identify_top_contributors: the scored table
    n_top,              \* identify_top_contributors: n_top argument
    contributors,       \* identify_top_contributors: the returned lists
    hourly_again,       \* the hourly aggregate of an hourly aggregate
    scenario_name,      \* get_scenario_config: its argument
    config,             \* get_scenario_config: the returned dictionary
    nodegroups,         \* generate_nodepool_state: nodegroup configurations
    timestamps,         \* generate_nodepool_state: the sample times
    scenario_config     \* generate_nodepool_state: the scenario parameters

vars == <<pc, raised, df, inplace, out_df, gpu_util, pif, efficiency_class,
          s, method, window, normalized, pending_workloads, wait_time_seconds,
          qps, dcr, efficiency_gap, cis, severity, available_capacity,
          kueue_df, dcgm_df, nodepool_df, result, entry, datasets, files,
          message, returned, imbalance_df, n_top, contributors, hourly_again,
          scenario_name, config, nodegroups, timestamps, scenario_config>>

effVars   == <<df, inplace, out_df>>
classVars == <<gpu_util, pif, efficiency_class>>
normVars  == <<s, method, window, normalized>>
qpsVars   == <<pending_workloads, wait_time_seconds>>
scoreVars == <<qps, dcr, efficiency_gap, cis>>
pipeVars  == <<kueue_df, dcgm_df, nodepool_df, result>>
genVars   == <<entry, datasets, files, message, returned>>
rankVars  == <<imbalance_df, n_top, contributors>>
cfgVars   == <<scenario_name, config>>
poolVars  == <<nodegroups, timestamps, scenario_config>>
stageVars == <<rankVars, hourly_again, cfgVars, poolVars>>
extVars   == <<available_capacity, pipeVars, genVars, stageVars>>

(***************************************************************************)
(* Bounds of the model.                                                    *)
(***************************************************************************)
MaxLen == 3       \* longest series given to normalize_series and the queue score
MaxScoreLen == 2  \* longest series given to the composite score
MaxRows == 2      \* longest series given to the row-wise classifiers
MaxSamples == 1   \* most rows of a DCGM table
MaxVal == 2       \* largest raw count (pending, wait, DCR) in a series

(***************************************************************************)
(* Exact rational arithmetic with IEEE special values.                     *)
(***************************************************************************)
NaN == <<0, 0>>
PosInf == <<1, 0>>
NegInf == <<-1, 0>>

\* 1 / epsilon for the default epsilon = 1e-6 of calculate_demand_capacity_ratio
EpsilonInverse == 1000000

Abs(n) == IF n < 0 THEN -n ELSE n
Sign(n) == IF n < 0 THEN -1 ELSE IF n > 0 THEN 1 ELSE 0

RECURSIVE GCD(_, _)
GCD(a, b) == IF b = 0 THEN a ELSE GCD(b, a % b)

\* n/d as a cell: lowest terms, positive denominator; x/0 is inf or NaN.
Rat(n, d) ==
    IF d = 0 THEN <<Sign(n), 0>>
    ELSE LET g == GCD(Abs(n), Abs(d))
             sg == IF d < 0 THEN -1 ELSE 1
         IN  <<sg * (n \div g), sg * (d \div g)>>

R(n) == <<n, 1>>

(***************************************************************************)
(* Values that involve epsilon do not fit the machine integers of the      *)
(* model checker as n/d.  Such a cell is <<N, D, "big">>, where N and D    *)
(* are integers written in base 1/epsilon, lowest digit first, with        *)
(* signed digits: <<1, 2>> is 2 * 10^6 + 1.  The arithmetic is exact.      *)
(***************************************************************************)
IsBig(x) == Len(x) = 3

PGet(p, k) == IF k \in 1..Len(p) THEN p[k] ELSE 0
PAdd(p, q) ==
    [k \in 1..(IF Len(p) > Len(q) THEN Len(p) ELSE Len(q)) |-> PGet(p, k) + PGet(q, k)]
PNeg(p) == [k \in 1..Len(p) |-> -p[k]]

RECURSIVE PConv(_, _, _, _)
PConv(p, q, k, i) ==
    IF i > Len(p) THEN 0 ELSE p[i] * PGet(q, k - i + 1) + PConv(p, q, k, i + 1)

PMul(p, q) ==
    IF Len(p) = 0 \/ Len(q) = 0 THEN <<>>
    ELSE [k \in 1..(Len(p) + Len(q) - 1) |-> PConv(p, q, k, 1)]

\* sign of the integer: carry the digits into 0..EpsilonInverse-1 from the lowest
RECURSIVE PCarry(_, _, _, _)
PCarry(p, k, carry, low) ==
    IF k > Len(p)
    THEN IF carry # 0 THEN Sign(carry) ELSE IF low THEN 1 ELSE 0
    ELSE LET t == p[k] + carry
             r == t % EpsilonInverse
         IN  PCarry(p, k + 1, (t - r) \div EpsilonInverse, low \/ r # 0)

PSign(p) == PCarry(p, 1, 0, FALSE)

RECURSIVE PTrim(_)
PTrim(p) ==
    IF Len(p) > 0 /\ p[Len(p)] = 0 THEN PTrim(SubSeq(p, 1, Len(p) - 1)) ELSE p

PLowZeros(p) == Cardinality({k \in 1..Len(p) : \A j \in 1..k : p[j] = 0})

RECURSIVE PContent(_, _)
PContent(p, k) == IF k > Len(p) THEN 0 ELSE GCD(Abs(p[k]), PContent(p, k + 1))

\* N0/D0 (D0 # 0) as a cell: an n/d cell whenever both are single digits
BigCell(N0, D0) ==
    LET Lowest(N3, D3) ==
            IF Len(N3) = 1 /\ Len(D3) = 1 THEN Rat(N3[1], D3[1])
            ELSE IF N3 = D3 THEN R(1)
            ELSE IF N3 = PNeg(D3) THEN R(-1)
            ELSE <<N3, D3, "big">>
        Divided(N2, D2, g) ==
            Lowest([k \in 1..Len(N2) |-> N2[k] \div g],
                   [k \in 1..Len(D2) |-> D2[k] \div g])
        Shifted(N2, D2) == Divided(N2, D2, GCD(PContent(N2, 1), PContent(D2, 1)))
        Shift(N1, D1, z) ==
            Shifted(SubSeq(N1, z + 1, Len(N1)), SubSeq(D1, z + 1, Len(D1)))
        Lower(zn, zd) == IF zn < zd THEN zn ELSE zd
        Positive(N1, D1) ==
            IF PSign(N1) = 0 THEN R(0)
            ELSE Shift(N1, D1, Lower(PLowZeros(N1), PLowZeros(D1)))
        Signed(sd) ==
            Positive(PTrim(IF sd < 0 THEN PNeg(N0) ELSE N0),
                     PTrim(IF sd < 0 THEN PNeg(D0) ELSE D0))
    IN  Signed(PSign(D0))

\* numerator and denominator digits of a finite cell
Num(x) == IF IsBig(x) THEN x[1] ELSE <<x[1]>>
Den(x) == IF IsBig(x) THEN x[2] ELSE <<x[2]>>

\* epsilon itself: 1 / 10^6
Epsilon == <<<<1>>, <<0, 1>>, "big">>

IsNaN(x) == x = NaN
IsFinite(x) == IsBig(x) \/ x[2] # 0

RNeg(a) == IF IsBig(a) THEN <<PNeg(a[1]), a[2], "big">> ELSE <<-a[1], a[2]>>

RAdd(a, b) ==
    IF IsFinite(a) /\ IsFinite(b) THEN
        IF IsBig(a) \/ IsBig(b)
        THEN BigCell(PAdd(PMul(Num(a), Den(b)), PMul(Num(b), Den(a))),
                     PMul(Den(a), Den(b)))
        ELSE Rat(a[1] * b[2] + b[1] * a[2], a[2] * b[2])
    ELSE IF IsNaN(a) \/ IsNaN(b) THEN NaN
    ELSE IF IsFinite(a) THEN b
    ELSE IF IsFinite(b) THEN a
    ELSE IF a = b THEN a ELSE NaN

RSub(a, b) == RAdd(a, RNeg(b))

\* sign of a cell that is not NaN
RSign(a) == IF IsBig(a) THEN PSign(a[1]) ELSE Sign(a[1])

RMul(a, b) ==
    IF IsFinite(a) /\ IsFinite(b) THEN
        IF IsBig(a) \/ IsBig(b)
        THEN BigCell(PMul(Num(a), Num(b)), PMul(Den(a), Den(b)))
        ELSE Rat(a[1] * b[1], a[2] * b[2])
    ELSE IF IsNaN(a) \/ IsNaN(b) THEN NaN
    ELSE <<RSign(a) * RSign(b), 0>>

RDiv(a, b) ==
    IF IsFinite(a) /\ IsFinite(b) THEN
        IF IsBig(a) \/ IsBig(b)
        THEN IF RSign(b) = 0 THEN <<RSign(a), 0>>
             ELSE BigCell(PMul(Num(a), Den(b)), PMul(Den(a), Num(b)))
        ELSE Rat(a[1] * b[2], a[2] * b[1])
    ELSE IF IsNaN(a) \/ IsNaN(b) THEN NaN
    ELSE IF IsFinite(a) THEN R(0)
    ELSE IF IsFinite(b) THEN <<a[1] * (IF RSign(b) < 0 THEN -1 ELSE 1), 0>>
    ELSE NaN

\* sign of a - b for finite cells (denominators are positive)
CmpFinite(a, b) ==
    IF IsBig(a) \/ IsBig(b)
    THEN PSign(PAdd(PMul(Num(a), Den(b)), PNeg(PMul(Num(b), Den(a)))))
    ELSE Sign(a[1] * b[2] - b[1] * a[2])

RLt(a, b) ==
    /\ ~IsNaN(a)
    /\ ~IsNaN(b)
    /\ IF IsFinite(a) /\ IsFinite(b) THEN CmpFinite(a, b) < 0
       ELSE a # b /\ (a = NegInf \/ b = PosInf)

\* float ==: NaN equals nothing
REq(a, b) ==
    /\ ~IsNaN(a)
    /\ ~IsNaN(b)
    /\ IF IsFinite(a) /\ IsFinite(b) THEN CmpFinite(a, b) = 0 ELSE a = b

RGt(a, b) == RLt(b, a)
RLe(a, b) == REq(a, b) \/ RLt(a, b)
RGe(a, b) == RLe(b, a)

\* Series.clip(lower, upper): NaN stays NaN.
Clip(x, lo, hi) == IF RLt(x, lo) THEN lo ELSE IF RGt(x, hi) THEN hi ELSE x
ClipLower(x, lo) == IF RLt(x, lo) THEN lo ELSE x

\* All series of length lo..hi over a set of cells.
SeriesOf(V, lo, hi) == UNION {[1..n -> V] : n \in lo..hi}

(***************************************************************************)
(* Severity Classifier: imbalance.py classify_imbalance_severity           *)
(***************************************************************************)
\* classify with non-strict thresholds
classify_ge(cis_val, dcr_val) ==
    IF RGe(cis_val, Rat(7, 10)) \/ RGe(dcr_val, R(2)) THEN "Critical"
    ELSE IF RGe(cis_val, Rat(5, 10)) \/ RGe(dcr_val, R(1)) THEN "Warning"
    ELSE IF RGe(cis_val, Rat(3, 10)) THEN "Moderate"
    ELSE "Healthy"

\* classify with the Moderate rule tried before the Warning rule
classify_moderate_first(cis_val, dcr_val) ==
    IF RGt(cis_val, Rat(7, 10)) \/ RGt(dcr_val, R(2)) THEN "Critical"
    ELSE IF RGt(cis_val, Rat(3, 10)) THEN "Moderate"
    ELSE IF RGt(cis_val, Rat(5, 10)) \/ RGt(dcr_val, R(1)) THEN "Warning"
    ELSE "Healthy"

classify(cis_val, dcr_val) ==
    IF RGt(cis_val, Rat(7, 10)) \/ RGt(dcr_val, R(2)) THEN "Critical"
    ELSE IF RGt(cis_val, Rat(5, 10)) \/ RGt(dcr_val, R(1)) THEN "Warning"
    ELSE IF RGt(cis_val, Rat(3, 10)) THEN "Moderate"
    ELSE "Healthy"

\* zip(cis, dcr) labelled with cis.index
classify_imbalance_severity(c, d) == [i \in 1..Len(c) |-> classify(c[i], d[i])]


(***************************************************************************)
(* Efficiency Calculator: metrics.py                                       *)
(***************************************************************************)
GPU_SPECS ==
    [x \in {"NVIDIA A10G", "NVIDIA A100-SXM4-40GB", "NVIDIA H100 80GB HBM3"} |->
        CASE x = "NVIDIA A10G" -> [max_power |-> 300, achievable_tflops |-> 35]
          [] x = "NVIDIA A100-SXM4-40GB" -> [max_power |-> 400, achievable_tflops |-> 102]
          [] x = "NVIDIA H100 80GB HBM3" -> [max_power |-> 700, achievable_tflops |-> 646]]

DefaultMaxPower == 400
DefaultAchievableTflops == 100

\* GPU_SPECS.get(x, {}).get('max_power', 400)
max_power(x) ==
    IF x \in DOMAIN GPU_SPECS THEN GPU_SPECS[x].max_power ELSE DefaultMaxPower

\* GPU_SPECS.get(x, {}).get('achievable_tflops', 100)
\* the A100 throughput as the fallback, not 100
achievable_default_a100(x) ==
    IF x \in DOMAIN GPU_SPECS THEN GPU_SPECS[x].achievable_tflops ELSE 102

achievable(x) ==
    IF x \in DOMAIN GPU_SPECS THEN GPU_SPECS[x].achievable_tflops
    ELSE DefaultAchievableTflops

Column(t, col) == [i \in 1..Len(t) |-> t[i][col]]

\* the power ratio without .clip(0, 1)
pif_unclipped(t) ==
    [i \in 1..Len(t) |->
        RDiv(t[i].power_usage_watts, R(max_power(t[i].gpu_model)))]

calculate_power_intensity_factor(t) ==
    [i \in 1..Len(t) |->
        Clip(RDiv(t[i].power_usage_watts, R(max_power(t[i].gpu_model))),
             R(0), R(1))]

calculate_realized_tflops(t, p) ==
    [i \in 1..Len(t) |-> RMul(R(achievable(t[i].gpu_model)), p[i])]

calculate_rfu(t, realized_tflops) ==
    [i \in 1..Len(t) |->
        Clip(RMul(RDiv(realized_tflops[i], R(achievable(t[i].gpu_model))), R(100)),
             R(0), R(100))]

\* the gap with its operands exchanged
efficiency_gap_swapped(util, rfu) ==
    [i \in 1..Len(util) |-> RSub(rfu[i], util[i])]

\* the gap clipped at zero
efficiency_gap_clipped(util, rfu) ==
    [i \in 1..Len(util) |-> ClipLower(RSub(util[i], rfu[i]), R(0))]

calculate_efficiency_gap(util, rfu) ==
    [i \in 1..Len(util) |-> RSub(util[i], rfu[i])]

\* used / total * 100 without .fillna(0)
memory_pressure_unfilled(used_mb, free_mb) ==
    [i \in 1..Len(used_mb) |->
        RMul(RDiv(used_mb[i], RAdd(used_mb[i], free_mb[i])), R(100))]

\* (used / total * 100).fillna(0)
calculate_memory_pressure(used_mb, free_mb) ==
    [i \in 1..Len(used_mb) |->
        LET total == RAdd(used_mb[i], free_mb[i])
            pct == RMul(RDiv(used_mb[i], total), R(100))
        IN  IF IsNaN(pct) THEN R(0) ELSE pct]

\* classify_row with a non-strict bottleneck threshold
classify_row_bounded(util, pif_val) ==
    IF RLt(util, R(10)) THEN "Idle"
    ELSE IF RGe(util, R(70)) /\ RGe(pif_val, Rat(75, 100)) THEN "Efficient"
    ELSE IF RGe(util, R(70)) /\ RLe(pif_val, Rat(60, 100)) THEN "Bottlenecked"
    ELSE IF RGe(util, R(40)) /\ RGe(pif_val, Rat(50, 100)) THEN "Moderate"
    ELSE "Inefficient"

classify_row(util, pif_val) ==
    IF RLt(util, R(10)) THEN "Idle"
    ELSE IF RGe(util, R(70)) /\ RGe(pif_val, Rat(75, 100)) THEN "Efficient"
    ELSE IF RGe(util, R(70)) /\ RLt(pif_val, Rat(60, 100)) THEN "Bottlenecked"
    ELSE IF RGe(util, R(40)) /\ RGe(pif_val, Rat(50, 100)) THEN "Moderate"
    ELSE "Inefficient"

\* zip(gpu_util, pif) labelled with gpu_util.index
classify_efficiency(util, p) == [i \in 1..Len(util) |-> classify_row(util[i], p[i])]

\* The table with the six derived columns added, in the order the code adds them.
add_efficiency_metrics(t) ==
    LET p == calculate_power_intensity_factor(t)
        realized == calculate_realized_tflops(t, p)
        rfu == calculate_rfu(t, realized)
        gap == calculate_efficiency_gap(Column(t, "gpu_utilization_pct"), rfu)
        mem == calculate_memory_pressure(Column(t, "memory_used_mb"),
                                         Column(t, "memory_free_mb"))
        cls == classify_efficiency(Column(t, "gpu_utilization_pct"), p)
    IN  [i \in 1..Len(t) |->
            [power_intensity_factor |-> p[i],
             realized_tflops |-> realized[i],
             rfu_pct |-> rfu[i],
             efficiency_gap |-> gap[i],
             memory_pressure_pct |-> mem[i],
             efficiency_class |-> cls[i]] @@ t[i]]

\* the caller's table after the call when the columns are set on it directly
table_after_no_copy(t, inpl, out) == out

\* the caller's table after the call: df = df.copy() unless inplace
table_after_add_efficiency_metrics(t, inpl, out) == IF inpl THEN out ELSE t


(***************************************************************************)
(* normalize_series: metrics.py                                            *)
(***************************************************************************)
\* Series.min() / Series.max(): missing values are skipped; NaN when none is left.
ValidAt(ser, idx) == {ser[i] : i \in {j \in idx : ~IsNaN(ser[j])}}
MinOf(S) == IF S = {} THEN NaN ELSE CHOOSE x \in S : \A y \in S : RLe(x, y)
MaxOf(S) == IF S = {} THEN NaN ELSE CHOOSE x \in S : \A y \in S : RGe(x, y)

\* s.rolling(w, min_periods=1): the trailing window of row i
Trailing(i, w) == {j \in 1..i : j > i - w}

\* s.rank(pct=True): average rank among the valid cells over their count
RankPct(ser, i) ==
    LET valid == {j \in 1..Len(ser) : ~IsNaN(ser[j])}
        less == Cardinality({j \in valid : RLt(ser[j], ser[i])})
        same == Cardinality({j \in valid : REq(ser[j], ser[i])})
    IN  IF IsNaN(ser[i]) THEN NaN
        ELSE RDiv(Rat(2 * less + same + 1, 2), R(Cardinality(valid)))

\* normalize_series raises ValueError for any other method
KnownMethod(meth) == meth \in {"minmax", "percentile"}

\* minmax without the zero-range guard
normalize_series_unguarded(ser, meth, w) ==
    IF meth = "minmax" THEN
        [i \in 1..Len(ser) |->
            LET idx == IF w # 0 THEN Trailing(i, w) ELSE 1..Len(ser)
                min_val == MinOf(ValidAt(ser, idx))
                max_val == MaxOf(ValidAt(ser, idx))
            IN  RDiv(RSub(ser[i], min_val), RSub(max_val, min_val))]
    ELSE [i \in 1..Len(ser) |-> RankPct(ser, i)]

normalize_series(ser, meth, w) ==
    IF meth = "minmax" THEN
        [i \in 1..Len(ser) |->
            LET idx == IF w # 0 THEN Trailing(i, w) ELSE 1..Len(ser)
                min_val == MinOf(ValidAt(ser, idx))
                max_val == MaxOf(ValidAt(ser, idx))
                range_val == RSub(max_val, min_val)
                guarded == IF range_val = R(0) THEN R(1) ELSE range_val
            IN  RDiv(RSub(ser[i], min_val), guarded)]
    ELSE [i \in 1..Len(ser) |-> RankPct(ser, i)]

(***************************************************************************)
(* Imbalance Scorer: imbalance.py                                          *)
(***************************************************************************)
pending_weight == Rat(6, 10)
wait_weight == Rat(4, 10)
dcr_weight == Rat(5, 10)
gap_weight == Rat(3, 10)
qps_weight == Rat(2, 10)

\* the score with the wait time left unnormalized
queue_pressure_unnormalized_wait(pending, wait) ==
    LET norm_pending == normalize_series(pending, "minmax", 0)
    IN  [i \in 1..Len(pending) |->
            RAdd(RMul(pending_weight, norm_pending[i]), RMul(wait_weight, wait[i]))]

\* the score with each series scaled by its maximum only
queue_pressure_max_scaled(pending, wait) ==
    LET max_p == MaxOf(ValidAt(pending, 1..Len(pending)))
        max_w == MaxOf(ValidAt(wait, 1..Len(wait)))
        div_p == IF max_p = R(0) THEN R(1) ELSE max_p
        div_w == IF max_w = R(0) THEN R(1) ELSE max_w
    IN  [i \in 1..Len(pending) |->
            RAdd(RMul(pending_weight, RDiv(pending[i], div_p)),
                 RMul(wait_weight, RDiv(wait[i], div_w)))]

calculate_queue_pressure_score(pending, wait) ==
    LET norm_pending == normalize_series(pending, "minmax", 0)
        norm_wait == normalize_series(wait, "minmax", 0)
    IN  [i \in 1..Len(pending) |->
            RAdd(RMul(pending_weight, norm_pending[i]),
                 RMul(wait_weight, norm_wait[i]))]

\* the composite with the gap clipped after normalization
composite_clip_after(d, gap, q) ==
    LET norm_dcr == normalize_series(d, "minmax", 0)
        norm_gap == normalize_series(gap, "minmax", 0)
    IN  [i \in 1..Len(d) |->
            RAdd(RAdd(RMul(dcr_weight, norm_dcr[i]),
                      RMul(gap_weight, ClipLower(norm_gap[i], R(0)))),
                 RMul(qps_weight, q[i]))]

\* the composite with the DCR left unnormalized
composite_raw_dcr(d, gap, q) ==
    LET norm_gap ==
            normalize_series([i \in 1..Len(gap) |-> ClipLower(gap[i], R(0))],
                             "minmax", 0)
    IN  [i \in 1..Len(d) |->
            RAdd(RAdd(RMul(dcr_weight, d[i]), RMul(gap_weight, norm_gap[i])),
                 RMul(qps_weight, q[i]))]

\* the composite with a missing gap counted as a gap of 0
composite_gap_filled(d, gap, q) ==
    LET norm_dcr == normalize_series(d, "minmax", 0)
        norm_gap ==
            normalize_series(
                [i \in 1..Len(gap) |->
                    IF IsNaN(gap[i]) THEN R(0) ELSE ClipLower(gap[i], R(0))],
                "minmax", 0)
    IN  [i \in 1..Len(d) |->
            RAdd(RAdd(RMul(dcr_weight, norm_dcr[i]), RMul(gap_weight, norm_gap[i])),
                 RMul(qps_weight, q[i]))]

calculate_composite_imbalance_score(d, gap, q) ==
    LET norm_dcr == normalize_series(d, "minmax", 0)
        norm_gap ==
            normalize_series([i \in 1..Len(gap) |-> ClipLower(gap[i], R(0))],
                             "minmax", 0)
    IN  [i \in 1..Len(d) |->
            RAdd(RAdd(RMul(dcr_weight, norm_dcr[i]), RMul(gap_weight, norm_gap[i])),
                 RMul(qps_weight, q[i]))]


(***************************************************************************)
(* Inputs.  Each specification starts with the arguments of one call and   *)
(* leaves the variables of the other calls empty.                          *)
(***************************************************************************)
Counts == {R(n) : n \in 0..MaxVal}
GapVals == {R(n) : n \in -1..MaxVal}
UnitVals == {R(0), Rat(1, 2), R(1)}
CisVals == {Rat(k, 10) : k \in 2..8}
DcrVals == {Rat(3, 10), Rat(1, 2), R(1), Rat(3, 2), R(2), Rat(5, 2)}
UtilVals == {R(u) : u \in {5, 10, 39, 40, 69, 70, 75, 100}}
PifVals == {Rat(k, 20) : k \in {0, 20} \cup 9..16}
PowerVals == {R(w) : w \in {0, 200, 300, 400, 500, 800}}
ModelNames == DOMAIN GPU_SPECS \cup {"NVIDIA T4"}
MemVals == {R(0), R(1)}
Methods == {"minmax", "percentile", "zscore"}

Samples ==
    [power_usage_watts : PowerVals, gpu_model : ModelNames,
     gpu_utilization_pct : {R(5), R(50), R(80)},
     memory_used_mb : MemVals, memory_free_mb : MemVals]

NoEff   == df = <<>> /\ inplace = FALSE /\ out_df = <<>>
NoClass == gpu_util = <<>> /\ pif = <<>> /\ efficiency_class = <<>>
NoNorm  == s = <<>> /\ method = "minmax" /\ window = 0 /\ normalized = <<>>
NoQps   == pending_workloads = <<>> /\ wait_time_seconds = <<>>
NoScore == qps = <<>> /\ dcr = <<>> /\ efficiency_gap = <<>> /\ cis = <<>>
Start   == pc = "call" /\ raised = "none"
NoPipe  == kueue_df = <<>> /\ dcgm_df = <<>> /\ nodepool_df = <<>> /\ result = <<>>
NoMessage == [dataset |-> "", text |-> ""]
NoGen   ==
    /\ entry = "" /\ datasets = <<>> /\ files = {} /\ message = NoMessage
    /\ returned = FALSE
NoRank  == imbalance_df = <<>> /\ n_top = 0 /\ contributors = <<>>
NoCfg   == scenario_name = "" /\ config = <<>>
NoPool  == nodegroups = <<>> /\ timestamps = <<>> /\ scenario_config = <<>>
NoStage == NoRank /\ hourly_again = <<>> /\ NoCfg /\ NoPool
NoExt   == available_capacity = <<>> /\ NoPipe /\ NoGen /\ NoStage

(***************************************************************************)
(* classify_imbalance_severity(cis, dcr)                                   *)
(***************************************************************************)
InitSeverity ==
    /\ Start /\ NoExt /\ NoEff /\ NoClass /\ NoNorm /\ NoQps
    /\ qps = <<>> /\ efficiency_gap = <<>> /\ severity = <<>>
    /\ \E n \in 1..MaxRows : cis \in [1..n -> CisVals] /\ dcr \in [1..n -> DcrVals]

ClassifySeverity ==
    /\ pc = "call"
    /\ severity' = classify_imbalance_severity(cis, dcr)
    /\ pc' = "done"
    /\ UNCHANGED extVars
    /\ UNCHANGED <<raised, effVars, classVars, normVars, qpsVars, scoreVars>>

NextSeverity == ClassifySeverity
SpecSeverity == InitSeverity /\ [][NextSeverity]_vars

(***************************************************************************)
(* classify_efficiency(gpu_util, pif)                                      *)
(***************************************************************************)
InitClassify ==
    /\ Start /\ NoExt /\ NoEff /\ NoNorm /\ NoQps /\ NoScore /\ severity = <<>>
    /\ efficiency_class = <<>>
    /\ \E n \in 1..MaxRows : gpu_util \in [1..n -> UtilVals] /\ pif \in [1..n -> PifVals]

ClassifyEfficiency ==
    /\ pc = "call"
    /\ efficiency_class' = classify_efficiency(gpu_util, pif)
    /\ pc' = "done"
    /\ UNCHANGED extVars
    /\ UNCHANGED <<raised, effVars, gpu_util, pif, normVars, qpsVars, scoreVars,
                   severity>>

NextClassify == ClassifyEfficiency
SpecClassify == InitClassify /\ [][NextClassify]_vars

(***************************************************************************)
(* add_efficiency_metrics(df, inplace)                                     *)
(***************************************************************************)
InitEfficiency ==
    /\ Start /\ NoExt /\ NoClass /\ NoNorm /\ NoQps /\ NoScore /\ severity = <<>>
    /\ df \in SeriesOf(Samples, 1, MaxSamples)
    /\ inplace \in BOOLEAN
    /\ out_df = <<>>

\* df = df.copy() unless inplace; the derived columns are set on that table
AddEfficiencyMetrics ==
    /\ pc = "call"
    /\ out_df' = add_efficiency_metrics(df)
    /\ df' = table_after_add_efficiency_metrics(df, inplace, out_df')
    /\ pc' = "done"
    /\ UNCHANGED extVars
    /\ UNCHANGED <<raised, inplace, classVars, normVars, qpsVars, scoreVars,
                   severity>>

NextEfficiency == AddEfficiencyMetrics
SpecEfficiency == InitEfficiency /\ [][NextEfficiency]_vars

(***************************************************************************)
(* normalize_series(s, method, window)                                     *)
(***************************************************************************)
InitNormalize ==
    /\ Start /\ NoExt /\ NoEff /\ NoClass /\ NoQps /\ NoScore /\ severity = <<>>
    /\ s \in SeriesOf(Counts, 0, MaxLen)
    /\ method \in Methods
    /\ window \in 0..MaxLen
    /\ normalized = <<>>

NormalizeReturn ==
    /\ pc = "call"
    /\ KnownMethod(method)
    /\ normalized' = normalize_series(s, method, window)
    /\ pc' = "done"
    /\ UNCHANGED extVars
    /\ UNCHANGED <<raised, effVars, classVars, s, method, window, qpsVars,
                   scoreVars, severity>>

NormalizeRaise ==
    /\ pc = "call"
    /\ ~KnownMethod(method)
    /\ raised' = "ValueError"
    /\ pc' = "done"
    /\ UNCHANGED extVars
    /\ UNCHANGED <<effVars, classVars, normVars, qpsVars, scoreVars, severity>>

NextNormalize == NormalizeReturn \/ NormalizeRaise
SpecNormalize == InitNormalize /\ [][NextNormalize]_vars

(***************************************************************************)
(* calculate_queue_pressure_score(pending_workloads, wait_time_seconds)    *)
(***************************************************************************)
InitQps ==
    /\ Start /\ NoExt /\ NoEff /\ NoClass /\ NoNorm /\ severity = <<>>
    /\ qps = <<>> /\ dcr = <<>> /\ efficiency_gap = <<>> /\ cis = <<>>
    /\ \E n \in 1..MaxLen :
          /\ pending_workloads \in [1..n -> Counts]
          /\ wait_time_seconds \in [1..n -> Counts]

QueuePressure ==
    /\ pc = "call"
    /\ qps' = calculate_queue_pressure_score(pending_workloads, wait_time_seconds)
    /\ pc' = "done"
    /\ UNCHANGED extVars
    /\ UNCHANGED <<raised, effVars, classVars, normVars, qpsVars, dcr,
                   efficiency_gap, cis, severity>>

NextQps == QueuePressure
SpecQps == InitQps /\ [][NextQps]_vars

(***************************************************************************)
(* calculate_composite_imbalance_score(dcr, efficiency_gap, qps)           *)
(***************************************************************************)
InitComposite ==
    /\ Start /\ NoExt /\ NoEff /\ NoClass /\ NoNorm /\ NoQps /\ severity = <<>>
    /\ cis = <<>>
    /\ \E n \in 1..MaxScoreLen :
          /\ dcr \in [1..n -> Counts]
          /\ efficiency_gap \in [1..n -> GapVals]
          /\ qps \in [1..n -> UnitVals]

CompositeScore ==
    /\ pc = "call"
    /\ cis' = calculate_composite_imbalance_score(dcr, efficiency_gap, qps)
    /\ pc' = "done"
    /\ UNCHANGED extVars
    /\ UNCHANGED <<raised, effVars, classVars, normVars, qpsVars, qps, dcr,
                   efficiency_gap, severity>>

NextComposite == CompositeScore
SpecComposite == InitComposite /\ [][NextComposite]_vars


(***************************************************************************)
(* Properties                                                              *)
(***************************************************************************)
SeverityLabels == {"Critical", "Warning", "Moderate", "Healthy"}
EfficiencyClasses == {"Idle", "Efficient", "Bottlenecked", "Moderate", "Inefficient"}

\* C1: classify_imbalance_severity returns one label per row, and the label is
\* Critical exactly when CIS > 0.7 or DCR > 2.0; otherwise Warning exactly when
\* CIS > 0.5 or DCR > 1.0; otherwise Moderate exactly when CIS > 0.3; otherwise
\* Healthy.  (0.8, 0.5) and (0.3, 2.5) are Critical, (0.2, 0.3) is Healthy.
C1_SeverityRules ==
    pc = "done" =>
        /\ Len(severity) = Len(cis)
        /\ \A i \in 1..Len(cis) :
            LET c == cis[i]
                d == dcr[i]
                crit == RGt(c, Rat(7, 10)) \/ RGt(d, R(2))
                warn == RGt(c, Rat(5, 10)) \/ RGt(d, R(1))
                mod == RGt(c, Rat(3, 10))
            IN  /\ severity[i] \in SeverityLabels
                /\ severity[i] = "Critical" <=> crit
                /\ severity[i] = "Warning" <=> ~crit /\ warn
                /\ severity[i] = "Moderate" <=> ~crit /\ ~warn /\ mod
                /\ severity[i] = "Healthy" <=> ~crit /\ ~warn /\ ~mod
                /\ (c = Rat(8, 10) /\ d = Rat(1, 2)) => severity[i] = "Critical"
                /\ (c = Rat(3, 10) /\ d = Rat(5, 2)) => severity[i] = "Critical"
                /\ (c = Rat(2, 10) /\ d = Rat(3, 10)) => severity[i] = "Healthy"

\* Two rows at rule boundaries: CIS exactly 0.7 with low DCR is a Warning, and
\* CIS exactly 0.3 with DCR exactly 1.0 is Healthy.
C1_Witness ==
    /\ pc = "done"
    /\ Len(cis) = 2
    /\ cis[1] = Rat(7, 10) /\ dcr[1] = Rat(1, 2) /\ severity[1] = "Warning"
    /\ cis[2] = Rat(3, 10) /\ dcr[2] = R(1) /\ severity[2] = "Healthy"

C3_HighUtilMidPifInefficient ==
    pc = "done" =>
        \A i \in 1..Len(gpu_util) :
            (gpu_util[i] = R(75) /\ pif[i] = Rat(13, 20)) =>
                efficiency_class[i] = "Inefficient"


\* C4: for every sample with non-negative power and any model name, catalogued
\* or not, power_intensity_factor lies in [0, 1], is exactly 1 when the power
\* exceeds the model's max_power, and rfu_pct lies in [0, 100].
C4_PifRfuBounded ==
    pc = "done" =>
        \A i \in 1..Len(out_df) :
            LET row == out_df[i]
            IN  RGe(row.power_usage_watts, R(0)) =>
                    /\ RGe(row.power_intensity_factor, R(0))
                    /\ RLe(row.power_intensity_factor, R(1))
                    /\ RGt(row.power_usage_watts, R(max_power(row.gpu_model))) =>
                           row.power_intensity_factor = R(1)
                    /\ RGe(row.rfu_pct, R(0))
                    /\ RLe(row.rfu_pct, R(100))

\* An uncatalogued model drawing more than the default max_power.
C4_Witness ==
    /\ pc = "done"
    /\ \E i \in 1..Len(out_df) :
          /\ out_df[i].gpu_model \notin DOMAIN GPU_SPECS
          /\ out_df[i].power_usage_watts = R(500)
          /\ out_df[i].power_intensity_factor = R(1)
          /\ out_df[i].rfu_pct = R(100)

IsA100At80(row) ==
    /\ row.gpu_model = "NVIDIA A100-SXM4-40GB"
    /\ row.gpu_utilization_pct = R(80)

\* C5 as stated: spec (400 W, 102 TFLOPS), utilization 80: power 400 gives PIF 1,
\* realized 102, RFU 100 and gap 30; power 200 gives PIF 0.5, realized 51,
\* RFU 50 and gap 30.
C5_ScenarioAsStated ==
    pc = "done" =>
        \A i \in 1..Len(out_df) :
            LET row == out_df[i]
            IN  IsA100At80(row) =>
                    /\ row.power_usage_watts = R(400) =>
                           /\ row.power_intensity_factor = R(1)
                           /\ row.realized_tflops = R(102)
                           /\ row.rfu_pct = R(100)
                           /\ row.efficiency_gap = R(30)
                    /\ row.power_usage_watts = R(200) =>
                           /\ row.power_intensity_factor = Rat(1, 2)
                           /\ row.realized_tflops = R(51)
                           /\ row.rfu_pct = R(50)
                           /\ row.efficiency_gap = R(30)

\* C5 (amended): as above, but at power 400 the gap is 80 - 100 = -20.
C5_Scenario ==
    pc = "done" =>
        \A i \in 1..Len(out_df) :
            LET row == out_df[i]
            IN  IsA100At80(row) =>
                    /\ row.power_usage_watts = R(400) =>
                           /\ row.power_intensity_factor = R(1)
                           /\ row.realized_tflops = R(102)
                           /\ row.rfu_pct = R(100)
                           /\ row.efficiency_gap = R(-20)
                    /\ row.power_usage_watts = R(200) =>
                           /\ row.power_intensity_factor = Rat(1, 2)
                           /\ row.realized_tflops = R(51)
                           /\ row.rfu_pct = R(50)
                           /\ row.efficiency_gap = R(30)

\* The full-power sample of the scenario has been processed.
C5_Witness ==
    /\ pc = "done"
    /\ \E i \in 1..Len(out_df) :
          /\ IsA100At80(out_df[i])
          /\ out_df[i].power_usage_watts = R(400)
          /\ out_df[i].efficiency_gap = R(-20)


\* C6: with the default weights 0.6 and 0.4, every element of the queue pressure
\* score lies in [0, 1], for every pair of equal-length series of non-negative
\* values, constant and single-element series included.
C6_QpsBounded ==
    pc = "done" =>
        /\ Len(qps) = Len(pending_workloads)
        /\ \A i \in 1..Len(qps) : RGe(qps[i], R(0)) /\ RLe(qps[i], R(1))

\* A rising pending series scored against a constant wait series.
C6_Witness ==
    /\ pc = "done"
    /\ pending_workloads = <<R(0), R(1), R(2)>>
    /\ wait_time_seconds = <<R(2), R(2), R(2)>>
    /\ qps = <<R(0), Rat(3, 10), Rat(6, 10)>>

IsMaxOf(x, ser) == \A j \in 1..Len(ser) : RLe(ser[j], x)
IsConstant(ser) == \A j, k \in 1..Len(ser) : ser[j] = ser[k]

\* C7 as stated: the score of row i is 1.0 if and only if pending[i] is the
\* maximum of the pending series and wait_time[i] is the maximum of the wait
\* series, also when a series is constant.
C7_QpsOneIffBothMax ==
    pc = "done" =>
        \A i \in 1..Len(qps) :
            qps[i] = R(1) <=>
                /\ IsMaxOf(pending_workloads[i], pending_workloads)
                /\ IsMaxOf(wait_time_seconds[i], wait_time_seconds)

\* C7 (amended): the score of row i is 1.0 if and only if pending[i] and
\* wait_time[i] are the maxima of their series and neither series is constant;
\* when either series is constant no row scores 1.0.
C7_QpsOneIffBothMaxAndVarying ==
    pc = "done" =>
        \A i \in 1..Len(qps) :
            qps[i] = R(1) <=>
                /\ IsMaxOf(pending_workloads[i], pending_workloads)
                /\ IsMaxOf(wait_time_seconds[i], wait_time_seconds)
                /\ ~IsConstant(pending_workloads)
                /\ ~IsConstant(wait_time_seconds)

\* A row holding both maxima of two varying series scores 1.0.
C7_Witness ==
    /\ pc = "done"
    /\ ~IsConstant(pending_workloads)
    /\ ~IsConstant(wait_time_seconds)
    /\ \E i \in 1..Len(qps) :
          /\ IsMaxOf(pending_workloads[i], pending_workloads)
          /\ IsMaxOf(wait_time_seconds[i], wait_time_seconds)
          /\ qps[i] = R(1)

\* C8: minmax normalization of a series without missing values returns, for
\* each row, (s - min) / (max - min) over the full series (or over the row's
\* trailing window), a value in [0, 1]: 0 at the minimum, 1 at the maximum when
\* the range is non-zero, and 0 for every row (never NaN, no error) when the
\* range is zero, whatever the length.
C8_MinMaxNormalization ==
    (pc = "done" /\ method = "minmax") =>
        /\ raised = "none"
        /\ Len(normalized) = Len(s)
        /\ \A i \in 1..Len(s) :
            LET idx == IF window = 0 THEN 1..Len(s) ELSE {j \in 1..i : i - j < window}
                r == normalized[i]
            IN  /\ ~IsNaN(r)
                /\ RGe(r, R(0))
                /\ RLe(r, R(1))
                /\ \A a, b \in idx :
                      ((\A k \in idx : RLe(s[a], s[k]) /\ RLe(s[k], s[b]))) =>
                          /\ s[a] = s[b] => r = R(0)
                          /\ s[a] # s[b] =>
                                /\ RMul(r, RSub(s[b], s[a])) = RSub(s[i], s[a])
                                /\ s[i] = s[a] => r = R(0)
                                /\ s[i] = s[b] => r = R(1)
        /\ IsConstant(s) => \A i \in 1..Len(s) : normalized[i] = R(0)

\* A trailing window of two rows over a varying series: the first row is alone
\* in its window and maps to 0.
C8_Witness ==
    /\ pc = "done"
    /\ method = "minmax"
    /\ window = 2
    /\ s = <<R(2), R(0), R(1)>>
    /\ normalized = <<R(0), R(0), R(1)>>

\* C9: a row whose efficiency gap is negative receives the composite score it
\* would receive with a gap of 0, and so does every other row: negative gaps
\* are clipped to 0 before normalization and never lower a composite score.
C9_NegativeGapAsZero ==
    pc = "done" =>
        \A i \in 1..Len(efficiency_gap) :
            RLt(efficiency_gap[i], R(0)) =>
                cis = calculate_composite_imbalance_score(
                          dcr, [efficiency_gap EXCEPT ![i] = R(0)], qps)

\* A negative gap next to a zero gap has been scored.
C9_Witness ==
    /\ pc = "done"
    /\ Len(cis) = 2
    /\ RLt(efficiency_gap[1], R(0))
    /\ efficiency_gap[2] = R(0)
    /\ dcr[1] # dcr[2]

\* C10: with the default weights 0.5 / 0.3 / 0.2, every composite imbalance
\* score computed from series without missing values, the QPS series within
\* [0, 1], lies in [0, 1].
C10_CompositeBounded ==
    pc = "done" =>
        /\ Len(cis) = Len(dcr)
        /\ \A i \in 1..Len(cis) : RGe(cis[i], R(0)) /\ RLe(cis[i], R(1))

\* A row that is the maximum of all three signals scores exactly 1.
C10_Witness ==
    /\ pc = "done"
    /\ \E i \in 1..Len(cis) :
          /\ cis[i] = R(1)
          /\ RGt(dcr[i], R(1))
          /\ qps[i] = R(1)


(***************************************************************************)
(* calculate_demand_capacity_ratio(pending, available_capacity, epsilon)   *)
(* with the default epsilon.                                               *)
(***************************************************************************)
dcr_no_epsilon(pending, avail) ==
    [i \in 1..Len(pending) |-> RDiv(pending[i], avail[i])]

calculate_demand_capacity_ratio(pending, avail) ==
    [i \in 1..Len(pending) |-> RDiv(pending[i], RAdd(avail[i], Epsilon))]

InitDcr ==
    /\ Start /\ NoPipe /\ NoGen /\ NoStage /\ NoEff /\ NoClass /\ NoNorm
    /\ wait_time_seconds = <<>> /\ qps = <<>> /\ efficiency_gap = <<>>
    /\ cis = <<>> /\ severity = <<>> /\ dcr = <<>>
    /\ \E n \in 1..MaxRows :
          /\ pending_workloads \in [1..n -> Counts]
          /\ available_capacity \in [1..n -> Counts]

DemandCapacityRatio ==
    /\ pc = "call"
    /\ dcr' = calculate_demand_capacity_ratio(pending_workloads, available_capacity)
    /\ pc' = "done"
    /\ UNCHANGED stageVars
    /\ UNCHANGED <<raised, effVars, classVars, normVars, qpsVars, qps,
                   efficiency_gap, cis, severity, available_capacity, pipeVars,
                   genVars>>

NextDcr == DemandCapacityRatio
SpecDcr == InitDcr /\ [][NextDcr]_vars

\* C11: for non-negative inputs and the default epsilon, DCR does not
\* decrease when pending grows at equal capacity, does not increase when
\* capacity grows at equal pending, is 0 when pending is 0, and is within 1%
\* of 1 when pending equals a positive capacity.
C11_DcrMonotone ==
    pc = "done" /\ dcr # <<>> =>
        \A i \in 1..Len(dcr) :
            /\ REq(pending_workloads[i], R(0)) => REq(dcr[i], R(0))
            /\ (/\ REq(pending_workloads[i], available_capacity[i])
                /\ RGt(available_capacity[i], R(0)))
               => /\ RLt(RSub(dcr[i], R(1)), Rat(1, 100))
                  /\ RGt(RSub(dcr[i], R(1)), Rat(-1, 100))
            /\ \A j \in 1..Len(dcr) :
                  /\ (/\ REq(available_capacity[i], available_capacity[j])
                      /\ RLe(pending_workloads[i], pending_workloads[j]))
                     => RLe(dcr[i], dcr[j])
                  /\ (/\ REq(pending_workloads[i], pending_workloads[j])
                      /\ RLe(available_capacity[i], available_capacity[j]))
                     => RGe(dcr[i], dcr[j])

C11_Witness ==
    /\ pc = "done" /\ Len(dcr) = 2
    /\ REq(available_capacity[1], available_capacity[2])
    /\ RLt(pending_workloads[1], pending_workloads[2])
    /\ RLt(dcr[1], dcr[2])
    /\ REq(pending_workloads[2], available_capacity[2])
    /\ RGt(available_capacity[2], R(0))
    /\ ~REq(dcr[2], R(1))

(***************************************************************************)
(* Joining the three sources: groupby().agg(), merge(how='outer') and the  *)
(* two functions built on them, calculate_all_imbalance_metrics            *)
(* (imbalance.py) and build_unified_model (aggregations.py).  A table is   *)
(* a sequence of rows; a row is a record of its columns.  Timestamps are   *)
(* minutes since the start of the data.                                    *)
(***************************************************************************)
MinutesPerHour == 60

\* nodegroup names in the order in which pandas sorts them
NodegroupOrder == <<"ml-training-a100", "ml-training-h100">>
Nodegroups == {NodegroupOrder[i] : i \in DOMAIN NodegroupOrder}
NodegroupRank(g) == CHOOSE i \in DOMAIN NodegroupOrder : NodegroupOrder[i] = g

\* the end of the hour in place of its start
hour_end(ts) == ((ts \div MinutesPerHour) + 1) * MinutesPerHour

\* Series.dt.floor('H')
HourFloor(ts) == (ts \div MinutesPerHour) * MinutesPerHour

KeyOf(row) == <<row.timestamp_hour, row.nodegroup>>
KeysOf(t) == {KeyOf(t[i]) : i \in DOMAIN t}
KeyLess(a, b) ==
    \/ a[1] < b[1]
    \/ a[1] = b[1] /\ NodegroupRank(a[2]) < NodegroupRank(b[2])

\* the keys in ascending order, as groupby and an outer merge arrange them
RECURSIVE SortKeys(_)
SortKeys(K) ==
    IF K = {} THEN <<>>
    ELSE LET first == CHOOSE k \in K : \A o \in K \ {k} : KeyLess(k, o)
         IN  <<first>> \o SortKeys(K \ {first})

RowsAt(t, k) == SelectSeq(t, LAMBDA row : KeyOf(row) = k)

RECURSIVE SumSeq(_)
SumSeq(vals) == IF vals = <<>> THEN R(0) ELSE RAdd(Head(vals), SumSeq(Tail(vals)))

\* one reduction of groupby().agg(): missing cells are skipped
Reduce(how, vals) ==
    LET valid == SelectSeq(vals, LAMBDA x : ~IsNaN(x))
    IN  CASE how = "sum" -> SumSeq(valid)
          [] how = "mean" ->
                IF valid = <<>> THEN NaN ELSE RDiv(SumSeq(valid), R(Len(valid)))
          [] how = "max" -> MaxOf({valid[i] : i \in DOMAIN valid})
          [] how = "first" -> IF valid = <<>> THEN NaN ELSE valid[1]

\* df.groupby([time_col, group_col]).agg(agg_config).reset_index()
GroupAgg(t, agg_config) ==
    LET ks == SortKeys(KeysOf(t))
    IN  [i \in 1..Len(ks) |->
            [timestamp_hour |-> ks[i][1], nodegroup |-> ks[i][2]] @@
            [c \in DOMAIN agg_config |->
                Reduce(agg_config[c], Column(RowsAt(t, ks[i]), c))]]

NaNRow(cols) == [c \in cols |-> NaN]

\* the rows of an outer merge for one key: every pairing of the left rows
\* with the right rows, or the rows of one side padded with missing cells
MergeAt(l, r, lcols, rcols, k) ==
    LET ls == RowsAt(l, k)
        rs == RowsAt(r, k)
    IN  IF ls = <<>> THEN [j \in 1..Len(rs) |-> rs[j] @@ NaNRow(lcols)]
        ELSE IF rs = <<>> THEN [i \in 1..Len(ls) |-> ls[i] @@ NaNRow(rcols)]
        ELSE [n \in 1..(Len(ls) * Len(rs)) |->
                ls[((n - 1) \div Len(rs)) + 1] @@ rs[((n - 1) % Len(rs)) + 1]]

RECURSIVE MergeKeys(_, _, _, _, _)
MergeKeys(l, r, lcols, rcols, ks) ==
    IF ks = <<>> THEN <<>>
    ELSE MergeAt(l, r, lcols, rcols, Head(ks))
         \o MergeKeys(l, r, lcols, rcols, Tail(ks))

\* l.merge(r, on=[time_col, group_col], how='outer')
OuterMerge(l, r, lcols, rcols) ==
    MergeKeys(l, r, lcols, rcols, SortKeys(KeysOf(l) \cup KeysOf(r)))

KueueAgg ==
    [pending_workloads |-> "sum", admission_wait_time_seconds |-> "mean",
     admitted_active_workloads |-> "sum", resource_usage |-> "sum"]
DcgmAgg ==
    [gpu_utilization_pct |-> "mean", power_intensity_factor |-> "mean",
     rfu_pct |-> "mean", efficiency_gap |-> "mean", memory_pressure_pct |-> "mean"]
NodepoolAgg == [capacity_gpu_count |-> "mean", allocatable_gpu_count |-> "mean"]

\* the difference left as it is, negative when usage exceeds allocatable
available_capacity_unclipped(allocatable, usage) ==
    [i \in 1..Len(allocatable) |-> RSub(allocatable[i], usage[i])]

\* (allocatable_gpu_count - resource_usage).clip(lower=0)
calculate_available_capacity(allocatable, usage) ==
    [i \in 1..Len(allocatable) |->
        ClipLower(RSub(allocatable[i], usage[i]), R(0))]

\* the join of the three aggregates and the metrics derived from it
JoinAndScore(kueue_agg, dcgm_agg, nodepool_agg) ==
    LET demand == OuterMerge(kueue_agg, nodepool_agg,
                             DOMAIN KueueAgg, DOMAIN NodepoolAgg)
        joined == OuterMerge(demand, dcgm_agg,
                             DOMAIN KueueAgg \cup DOMAIN NodepoolAgg, DOMAIN DcgmAgg)
        avail == calculate_available_capacity(
                     Column(joined, "allocatable_gpu_count"),
                     Column(joined, "resource_usage"))
        d == calculate_demand_capacity_ratio(Column(joined, "pending_workloads"), avail)
        q == calculate_queue_pressure_score(
                 Column(joined, "pending_workloads"),
                 Column(joined, "admission_wait_time_seconds"))
        c == calculate_composite_imbalance_score(d, Column(joined, "efficiency_gap"), q)
        sev == classify_imbalance_severity(c, d)
    IN  [i \in 1..Len(joined) |->
            joined[i] @@
            [available_capacity |-> avail[i], demand_capacity_ratio |-> d[i],
             queue_pressure_score |-> q[i], composite_imbalance_score |-> c[i],
             imbalance_severity |-> sev[i]]]

\* the join taken over the raw demand rows, not over their aggregate
imbalance_metrics_ungrouped(k, d, n) ==
    JoinAndScore(k, GroupAgg(d, DcgmAgg), GroupAgg(n, NodepoolAgg))

calculate_all_imbalance_metrics(k, d, n) ==
    JoinAndScore(GroupAgg(k, KueueAgg), GroupAgg(d, DcgmAgg),
                 GroupAgg(n, NodepoolAgg))

\* aggregate_to_hourly(df, time_col, group_cols=['nodegroup'], agg_config)
aggregate_to_hourly(t, time_col, agg_config) ==
    GroupAgg([i \in 1..Len(t) |->
                 [timestamp_hour |-> HourFloor(t[i][time_col])] @@ t[i]],
             agg_config)

KueueHourly == KueueAgg @@ [evicted_workloads_total |-> "max"]
DcgmHourly ==
    [gpu_utilization_pct |-> "mean", power_usage_watts |-> "mean",
     power_intensity_factor |-> "mean", rfu_pct |-> "mean",
     efficiency_gap |-> "mean", memory_used_mb |-> "mean",
     gpu_temp_celsius |-> "mean", tensor_active_pct |-> "mean"]

DemandColumns ==
    {"pending_workloads", "admission_wait_time_seconds",
     "admitted_active_workloads", "resource_usage"}

\* DataFrame.fillna({col: 0 for col in cols})
FillZero(t, cols) ==
    [i \in 1..Len(t) |->
        [c \in DOMAIN t[i] |->
            IF c \in cols /\ IsNaN(t[i][c]) THEN R(0) ELSE t[i][c]]]

Unify(k, d, n) ==
    LET kueue_hourly == aggregate_to_hourly(k, "timestamp", KueueHourly)
        dcgm_hourly == aggregate_to_hourly(d, "timestamp", DcgmHourly)
        nodepool_hourly == aggregate_to_hourly(n, "timestamp", NodepoolAgg)
        demand == OuterMerge(kueue_hourly, nodepool_hourly,
                             DOMAIN KueueHourly, DOMAIN NodepoolAgg)
    IN  OuterMerge(demand, dcgm_hourly,
                   DOMAIN KueueHourly \cup DOMAIN NodepoolAgg, DOMAIN DcgmHourly)

\* every column filled with zero, not the demand columns alone
unified_fill_all(k, d, n) ==
    FillZero(Unify(k, d, n), DOMAIN KueueHourly \cup DOMAIN DcgmHourly)

build_unified_model(k, d, n) == FillZero(Unify(k, d, n), DemandColumns)

(***************************************************************************)
(* The two joining functions on the same three tables.  The rows carry     *)
(* 'timestamp' and its hour 'timestamp_hour', as the generator writes      *)
(* them.  The capacity and the efficiency table hold at most one row per   *)
(* timestamp and nodegroup; the demand table holds any rows, several per   *)
(* key included.                                                           *)
(***************************************************************************)
MaxDemandRows == 2

Timestamps == {30}
Slots == Timestamps \X Nodegroups
PendingVals == {R(0), R(2)}
AllocatableVals == {R(1), R(2)}

KueueRows ==
    {[timestamp |-> sl[1], timestamp_hour |-> HourFloor(sl[1]), nodegroup |-> sl[2],
      pending_workloads |-> p, admission_wait_time_seconds |-> R(30),
      admitted_active_workloads |-> R(1), resource_usage |-> R(1),
      evicted_workloads_total |-> R(0)] : sl \in Slots, p \in PendingVals}

NodepoolRow(sl, a) ==
    [timestamp |-> sl[1], timestamp_hour |-> HourFloor(sl[1]), nodegroup |-> sl[2],
     capacity_gpu_count |-> R(2), allocatable_gpu_count |-> a]

\* two GPU samples: one drawing half power at 80% utilization (gap 30) and
\* one drawing full power at 50% utilization (gap -50)
GpuProfiles ==
    {[power_usage_watts |-> R(200), gpu_model |-> "NVIDIA A100-SXM4-40GB",
      gpu_utilization_pct |-> R(80), memory_used_mb |-> R(1), memory_free_mb |-> R(1)],
     [power_usage_watts |-> R(400), gpu_model |-> "NVIDIA A100-SXM4-40GB",
      gpu_utilization_pct |-> R(50), memory_used_mb |-> R(1), memory_free_mb |-> R(1)]}

\* a DCGM row with the efficiency metrics added
DcgmRow(sl, smp) ==
    [timestamp |-> sl[1], timestamp_hour |-> HourFloor(sl[1]), nodegroup |-> sl[2],
     gpu_temp_celsius |-> R(60), tensor_active_pct |-> R(50)]
    @@ add_efficiency_metrics(<<smp>>)[1]

\* the tables with one row for each slot of some set, in the order of the slots
NodepoolTables ==
    UNION {LET ks == SortKeys(S)
           IN  {[i \in 1..Len(ks) |-> NodepoolRow(ks[i], v[ks[i]])] :
                    v \in [S -> AllocatableVals]} : S \in SUBSET Slots}
DcgmTables ==
    UNION {LET ks == SortKeys(S)
           IN  {[i \in 1..Len(ks) |-> DcgmRow(ks[i], v[ks[i]])] :
                    v \in [S -> GpuProfiles]} : S \in SUBSET Slots}

InitJoin ==
    /\ Start /\ NoGen /\ NoStage /\ NoEff /\ NoClass /\ NoNorm /\ NoQps /\ NoScore
    /\ severity = <<>> /\ available_capacity = <<>>
    /\ result = <<>>
    /\ kueue_df \in SeriesOf(KueueRows, 0, MaxDemandRows)
    /\ dcgm_df \in DcgmTables
    /\ nodepool_df \in NodepoolTables

CalculateAllImbalanceMetrics ==
    /\ pc = "call"
    /\ entry' = "calculate_all_imbalance_metrics"
    /\ result' = calculate_all_imbalance_metrics(kueue_df, dcgm_df, nodepool_df)
    /\ pc' = "done"
    /\ UNCHANGED stageVars
    /\ UNCHANGED <<raised, effVars, classVars, normVars, qpsVars, scoreVars,
                   severity, available_capacity, kueue_df, dcgm_df, nodepool_df,
                   datasets, files, message, returned>>

BuildUnifiedModel ==
    /\ pc = "call"
    /\ entry' = "build_unified_model"
    /\ result' = build_unified_model(kueue_df, dcgm_df, nodepool_df)
    /\ pc' = "done"
    /\ UNCHANGED stageVars
    /\ UNCHANGED <<raised, effVars, classVars, normVars, qpsVars, scoreVars,
                   severity, available_capacity, kueue_df, dcgm_df, nodepool_df,
                   datasets, files, message, returned>>

NextJoin == CalculateAllImbalanceMetrics \/ BuildUnifiedModel
SpecJoin == InitJoin /\ [][NextJoin]_vars

Scored == pc = "done" /\ entry = "calculate_all_imbalance_metrics"
Unified == pc = "done" /\ entry = "build_unified_model"
SourceKeys == KeysOf(kueue_df) \cup KeysOf(dcgm_df) \cup KeysOf(nodepool_df)

\* C12: in the table of calculate_all_imbalance_metrics a key that has no
\* demand rows carries pending_workloads, admission_wait_time_seconds,
\* admitted_active_workloads and resource_usage equal to 0, and a DCR
\* computed from that pending count of 0.
C12_DemandDefaultsToZero ==
    Scored =>
        \A i \in 1..Len(result) :
            KeyOf(result[i]) \notin KeysOf(kueue_df) =>
                /\ \A c \in DemandColumns : REq(result[i][c], R(0))
                /\ REq(result[i].demand_capacity_ratio,
                       RDiv(R(0), RAdd(result[i].available_capacity, Epsilon)))

\* C13: build_unified_model returns one row for each key of the three hourly
\* aggregates; its four demand columns are 0 where the key had no demand
\* rows; its efficiency columns are missing where the key had no GPU
\* telemetry and present where it had some.
C13_UnifiedFill ==
    Unified =>
        /\ KeysOf(result) = SourceKeys
        /\ \A i \in 1..Len(result) :
              /\ KeyOf(result[i]) \notin KeysOf(kueue_df) =>
                    \A c \in DemandColumns : result[i][c] = R(0)
              /\ KeyOf(result[i]) \notin KeysOf(dcgm_df) =>
                    \A c \in DOMAIN DcgmHourly : IsNaN(result[i][c])
              /\ KeyOf(result[i]) \in KeysOf(dcgm_df) =>
                    \A c \in DOMAIN DcgmHourly : ~IsNaN(result[i][c])

C13_Witness ==
    /\ Unified
    /\ \E i \in 1..Len(result) :
          /\ KeyOf(result[i]) \notin KeysOf(kueue_df)
          /\ KeyOf(result[i]) \notin KeysOf(dcgm_df)
          /\ result[i].pending_workloads = R(0)
          /\ IsNaN(result[i].efficiency_gap)
          /\ ~IsNaN(result[i].allocatable_gpu_count)
    /\ \E i \in 1..Len(result) : result[i].gpu_utilization_pct = R(80)

Raise(dataset_name, text) == [dataset |-> dataset_name, text |-> text]

NodepoolRequired ==
    {"timestamp", "timestamp_hour", "nodegroup", "cluster", "region", "gpu_model",
     "capacity_gpu_count", "allocatable_gpu_count"}
KueueRequired ==
    {"timestamp", "timestamp_hour", "cluster", "region", "namespace", "queue_name",
     "nodegroup", "pending_workloads", "admission_wait_time_seconds",
     "admitted_active_workloads", "resource_usage"}
DcgmRequired ==
    {"timestamp", "timestamp_hour", "hostname", "cluster", "region", "nodegroup",
     "gpu_model", "gpu_uuid", "gpu_utilization_pct", "power_usage_watts",
     "memory_used_mb", "memory_free_mb", "gpu_temp_celsius"}

MaxPct == 100
MaxTempCelsius == 120

\* (df[col] < bound).any() and (df[col] > bound).any()
AnyBelow(t, col, bound) == \E i \in 1..Len(t.rows) : RLt(t.rows[i][col], R(bound))
AnyAbove(t, col, bound) == \E i \in 1..Len(t.rows) : RGt(t.rows[i][col], R(bound))

check_required_columns(t, required, dataset_name) ==
    IF required \ t.columns # {}
    THEN Raise(dataset_name, "Missing required columns")
    ELSE NoMessage

\* pd.api.types.is_datetime64_any_dtype(df['timestamp'])
IsDatetimeColumn(t) ==
    \A i \in 1..Len(t.rows) : t.rows[i].timestamp.kind # "string"

\* pd.to_datetime(df['timestamp']) raises
ToDatetimeFails(t) ==
    \E i \in 1..Len(t.rows) :
        t.rows[i].timestamp.kind = "string" /\ ~t.rows[i].timestamp.valid

check_timestamps(t, dataset_name) ==
    IF \E i \in 1..Len(t.rows) : t.rows[i].timestamp.kind = "null"
    THEN Raise(dataset_name, "timestamp contains null values")
    ELSE IF ~IsDatetimeColumn(t) /\ ToDatetimeFails(t)
    THEN Raise(dataset_name, "timestamp contains invalid datetime values")
    ELSE NoMessage

validate_nodepool_data(t) ==
    LET missing == check_required_columns(t, NodepoolRequired, "nodepool_state")
    IN  IF missing # NoMessage THEN missing
        ELSE IF AnyBelow(t, "capacity_gpu_count", 0)
        THEN Raise("nodepool_state", "capacity_gpu_count contains negative values")
        ELSE IF AnyBelow(t, "allocatable_gpu_count", 0)
        THEN Raise("nodepool_state", "allocatable_gpu_count contains negative values")
        ELSE IF \E i \in 1..Len(t.rows) :
                    RGt(t.rows[i].allocatable_gpu_count, t.rows[i].capacity_gpu_count)
        THEN Raise("nodepool_state", "allocatable_gpu_count exceeds capacity_gpu_count")
        ELSE check_timestamps(t, "nodepool_state")

validate_kueue_data(t) ==
    LET missing == check_required_columns(t, KueueRequired, "kueue_metrics")
    IN  IF missing # NoMessage THEN missing
        ELSE IF AnyBelow(t, "pending_workloads", 0)
        THEN Raise("kueue_metrics", "pending_workloads contains negative values")
        ELSE IF AnyBelow(t, "admitted_active_workloads", 0)
        THEN Raise("kueue_metrics", "admitted_active_workloads contains negative values")
        ELSE IF AnyBelow(t, "resource_usage", 0)
        THEN Raise("kueue_metrics", "resource_usage contains negative values")
        ELSE IF AnyBelow(t, "admission_wait_time_seconds", 0)
        THEN Raise("kueue_metrics", "admission_wait_time_seconds contains negative values")
        ELSE check_timestamps(t, "kueue_metrics")

\* the range checks with their upper bounds left out
validate_dcgm_lower_only(t) ==
    LET missing == check_required_columns(t, DcgmRequired, "dcgm_metrics")
    IN  IF missing # NoMessage THEN missing
        ELSE IF AnyBelow(t, "gpu_utilization_pct", 0)
        THEN Raise("dcgm_metrics", "gpu_utilization_pct out of range [0, 100]")
        ELSE IF "tensor_active_pct" \in t.columns /\ AnyBelow(t, "tensor_active_pct", 0)
        THEN Raise("dcgm_metrics", "tensor_active_pct out of range [0, 100]")
        ELSE IF AnyBelow(t, "power_usage_watts", 0)
        THEN Raise("dcgm_metrics", "power_usage_watts contains negative values")
        ELSE IF AnyBelow(t, "memory_used_mb", 0)
        THEN Raise("dcgm_metrics", "memory_used_mb contains negative values")
        ELSE IF AnyBelow(t, "memory_free_mb", 0)
        THEN Raise("dcgm_metrics", "memory_free_mb contains negative values")
        ELSE IF AnyBelow(t, "gpu_temp_celsius", 0)
        THEN Raise("dcgm_metrics", "gpu_temp_celsius out of range [0, 120]")
        ELSE check_timestamps(t, "dcgm_metrics")

validate_dcgm_data(t) ==
    LET missing == check_required_columns(t, DcgmRequired, "dcgm_metrics")
    IN  IF missing # NoMessage THEN missing
        ELSE IF \/ AnyBelow(t, "gpu_utilization_pct", 0)
                \/ AnyAbove(t, "gpu_utilization_pct", MaxPct)
        THEN Raise("dcgm_metrics", "gpu_utilization_pct out of range [0, 100]")
        ELSE IF /\ "tensor_active_pct" \in t.columns
                /\ \/ AnyBelow(t, "tensor_active_pct", 0)
                   \/ AnyAbove(t, "tensor_active_pct", MaxPct)
        THEN Raise("dcgm_metrics", "tensor_active_pct out of range [0, 100]")
        ELSE IF AnyBelow(t, "power_usage_watts", 0)
        THEN Raise("dcgm_metrics", "power_usage_watts contains negative values")
        ELSE IF AnyBelow(t, "memory_used_mb", 0)
        THEN Raise("dcgm_metrics", "memory_used_mb contains negative values")
        ELSE IF AnyBelow(t, "memory_free_mb", 0)
        THEN Raise("dcgm_metrics", "memory_free_mb contains negative values")
        ELSE IF \/ AnyBelow(t, "gpu_temp_celsius", 0)
                \/ AnyAbove(t, "gpu_temp_celsius", MaxTempCelsius)
        THEN Raise("dcgm_metrics", "gpu_temp_celsius out of range [0, 120]")
        ELSE check_timestamps(t, "dcgm_metrics")

DatasetNames == {"nodepool_state", "kueue_metrics", "dcgm_metrics"}
Validators == {"validate_nodepool_data", "validate_kueue_data", "validate_dcgm_data"}

ValidatorOf(ds) ==
    CASE ds = "nodepool_state" -> "validate_nodepool_data"
      [] ds = "kueue_metrics" -> "validate_kueue_data"
      [] ds = "dcgm_metrics" -> "validate_dcgm_data"

\* validations skipped once the first table has passed
next_step_unvalidated(ent, step) ==
    IF ent = step THEN "done"
    ELSE IF ent = "validate_all" THEN "passed" ELSE "save_tables"

\* where a call goes on when the validator 'step' has returned
next_step(ent, step) ==
    IF ent = step THEN "done"
    ELSE CASE step = "validate_nodepool_data" -> "validate_kueue_data"
           [] step = "validate_kueue_data" -> "validate_dcgm_data"
           [] step = "validate_dcgm_data" ->
                 IF ent = "validate_all" THEN "passed" ELSE "save_tables"

CsvFiles == <<"nodepool_state.csv", "kueue_metrics.csv", "dcgm_metrics.csv">>

(***************************************************************************)
(* Raw tables: a valid table and the tables that differ from it in a few   *)
(* cells or columns.                                                       *)
(***************************************************************************)
MaxCheckedRows == 2
MaxFaults == 2

Datetime(at) == [kind |-> "datetime", valid |-> TRUE, at |-> at]

\* row i of a valid table: one sample per hour of one nodegroup
BaseRow(ds, i) ==
    LET key == [nodegroup |-> NodegroupOrder[1],
                timestamp |-> Datetime(i * MinutesPerHour)]
    IN  CASE ds = "nodepool_state" ->
                key @@ [capacity_gpu_count |-> R(2), allocatable_gpu_count |-> R(1)]
          [] ds = "kueue_metrics" ->
                key @@ [pending_workloads |-> R(1), admitted_active_workloads |-> R(1),
                        resource_usage |-> R(1), admission_wait_time_seconds |-> R(30)]
          [] ds = "dcgm_metrics" ->
                key @@ [gpu_utilization_pct |-> R(50), tensor_active_pct |-> R(50),
                        power_usage_watts |-> R(200), memory_used_mb |-> R(1),
                        memory_free_mb |-> R(1), gpu_temp_celsius |-> R(60)]

AllColumns(ds) ==
    CASE ds = "nodepool_state" -> NodepoolRequired
      [] ds = "kueue_metrics" -> KueueRequired
      [] ds = "dcgm_metrics" -> DcgmRequired \cup {"tensor_active_pct"}

TimestampAlternatives ==
    {<<"timestamp", a>> : a \in {"null", "unparseable", "text", "early"}}

\* the ways in which a cell may differ from the valid table
Alternatives(ds) ==
    TimestampAlternatives \cup
    CASE ds = "nodepool_state" ->
            {<<"capacity_gpu_count", "negative">>, <<"allocatable_gpu_count", "negative">>,
             <<"allocatable_gpu_count", "above">>}
      [] ds = "kueue_metrics" ->
            {<<c, "negative">> : c \in DemandColumns}
      [] ds = "dcgm_metrics" ->
            {<<c, "negative">> :
                c \in {"gpu_utilization_pct", "tensor_active_pct", "power_usage_watts",
                       "memory_used_mb", "memory_free_mb", "gpu_temp_celsius"}}
            \cup {<<c, "above">> :
                c \in {"gpu_utilization_pct", "tensor_active_pct", "gpu_temp_celsius"}}

AltValue(col, alt, base) ==
    CASE alt = "negative" -> R(-1)
      [] alt = "above" ->
            IF col = "allocatable_gpu_count" THEN R(3)
            ELSE IF col = "gpu_temp_celsius" THEN R(MaxTempCelsius + 1)
            ELSE R(MaxPct + 1)
      [] alt = "null" -> [kind |-> "null", valid |-> FALSE, at |-> 0]
      [] alt = "unparseable" -> [kind |-> "string", valid |-> FALSE, at |-> 0]
      [] alt = "text" -> [kind |-> "string", valid |-> TRUE, at |-> base.at]
      [] alt = "early" -> Datetime(0)

Faults(ds, n) ==
    {[row |-> 0, col |-> c, alt |-> "dropped"] : c \in AllColumns(ds)}
    \cup {[row |-> r, col |-> ca[1], alt |-> ca[2]] : r \in 1..n, ca \in Alternatives(ds)}

RECURSIVE SubsetsUpTo(_, _)
SubsetsUpTo(S, k) ==
    IF k = 0 THEN {{}}
    ELSE LET smaller == SubsetsUpTo(S, k - 1)
         IN  smaller \cup {F \cup {x} : F \in smaller, x \in S}

\* the valid table of n rows with the cells and columns of F changed
WithFaults(ds, n, F) ==
    [columns |-> AllColumns(ds) \ {f.col : f \in {g \in F : g.alt = "dropped"}},
     rows |->
        [i \in 1..n |->
            [c \in DOMAIN BaseRow(ds, i) |->
                LET here == {f \in F : f.row = i /\ f.col = c}
                IN  IF here = {} THEN BaseRow(ds, i)[c]
                    ELSE AltValue(c, (CHOOSE f \in here : TRUE).alt, BaseRow(ds, i)[c])]]]

\* the tables the three generators may hand over: the valid one-row table
\* and each table that differs from it in one cell or column
GeneratedTables(ds) ==
    {WithFaults(ds, 1, {})} \cup {WithFaults(ds, 1, {f}) : f \in Faults(ds, 1)}

(***************************************************************************)
(* The validators called one by one, validate_all, and the validate,       *)
(* save and return part of generate_synthetic_data.                        *)
(***************************************************************************)
InitValidate ==
    /\ NoPipe /\ NoStage /\ NoEff /\ NoClass /\ NoNorm /\ NoQps /\ NoScore
    /\ severity = <<>> /\ available_capacity = <<>>
    /\ raised = "none" /\ message = NoMessage /\ files = {} /\ returned = FALSE
    /\ \/ \E ds \in DatasetNames :
             /\ entry = ValidatorOf(ds)
             /\ pc = entry
             /\ \E n \in 1..MaxCheckedRows :
                   \E F \in SubsetsUpTo(Faults(ds, n), MaxFaults) :
                      datasets = [d \in {ds} |-> WithFaults(ds, n, F)]
       \/ /\ entry \in {"validate_all", "generate_synthetic_data"}
          /\ pc = "validate_nodepool_data"
          /\ \E n \in GeneratedTables("nodepool_state"),
                k \in GeneratedTables("kueue_metrics"),
                d \in GeneratedTables("dcgm_metrics") :
                datasets = [nodepool_state |-> n, kueue_metrics |-> k,
                            dcgm_metrics |-> d]

\* one validator call: it raises its message or the caller goes on
Validated(m) ==
    /\ IF m = NoMessage
       THEN /\ pc' = next_step(entry, pc)
            /\ returned' = (entry = pc)
            /\ UNCHANGED <<raised, message>>
       ELSE /\ raised' = "ValidationError"
            /\ message' = m
            /\ pc' = "done"
            /\ UNCHANGED returned
    /\ UNCHANGED stageVars
    /\ UNCHANGED <<effVars, classVars, normVars, qpsVars, scoreVars, severity,
                   available_capacity, pipeVars, entry, datasets, files>>

ValidateNodepool ==
    /\ pc = "validate_nodepool_data"
    /\ Validated(validate_nodepool_data(datasets.nodepool_state))

ValidateKueue ==
    /\ pc = "validate_kueue_data"
    /\ Validated(validate_kueue_data(datasets.kueue_metrics))

ValidateDcgm ==
    /\ pc = "validate_dcgm_data"
    /\ Validated(validate_dcgm_data(datasets.dcgm_metrics))

\* validate_all: print("All validations passed.") and return
AllPassed ==
    /\ pc = "passed"
    /\ returned' = TRUE
    /\ pc' = "done"
    /\ UNCHANGED stageVars
    /\ UNCHANGED <<raised, effVars, classVars, normVars, qpsVars, scoreVars,
                   severity, available_capacity, pipeVars, entry, datasets, files,
                   message>>

\* generate_synthetic_data: the next to_csv
SaveTable ==
    /\ pc = "save_tables"
    /\ LET next == CHOOSE i \in 1..Len(CsvFiles) :
                      /\ CsvFiles[i] \notin files
                      /\ \A j \in 1..(i - 1) : CsvFiles[j] \in files
       IN  /\ files' = files \cup {CsvFiles[next]}
           /\ pc' = IF next = Len(CsvFiles) THEN "save_manifest" ELSE pc
    /\ UNCHANGED stageVars
    /\ UNCHANGED <<raised, effVars, classVars, normVars, qpsVars, scoreVars,
                   severity, available_capacity, pipeVars, entry, datasets,
                   message, returned>>

SaveManifest ==
    /\ pc = "save_manifest"
    /\ files' = files \cup {"manifest.json"}
    /\ pc' = "return"
    /\ UNCHANGED stageVars
    /\ UNCHANGED <<raised, effVars, classVars, normVars, qpsVars, scoreVars,
                   severity, available_capacity, pipeVars, entry, datasets,
                   message, returned>>

ReturnTables ==
    /\ pc = "return"
    /\ returned' = TRUE
    /\ pc' = "done"
    /\ UNCHANGED stageVars
    /\ UNCHANGED <<raised, effVars, classVars, normVars, qpsVars, scoreVars,
                   severity, available_capacity, pipeVars, entry, datasets, files,
                   message>>

NextValidate ==
    \/ ValidateNodepool \/ ValidateKueue \/ ValidateDcgm
    \/ AllPassed \/ SaveTable \/ SaveManifest \/ ReturnTables
SpecValidate == InitValidate /\ [][NextValidate]_vars

RequiredColumns(ds) ==
    CASE ds = "nodepool_state" -> NodepoolRequired
      [] ds = "kueue_metrics" -> KueueRequired
      [] ds = "dcgm_metrics" -> DcgmRequired

DatasetOf(ent) == CHOOSE ds \in DatasetNames : ValidatorOf(ds) = ent

Negative(x) == RLt(x, R(0))
OutOfRange(x, hi) == RLt(x, R(0)) \/ RGt(x, R(hi))

\* the table has one of the listed violations
HasViolation(ds, t) ==
    \/ RequiredColumns(ds) \ t.columns # {}
    \/ \E i \in 1..Len(t.rows) :
          LET row == t.rows[i]
          IN  \/ row.timestamp.kind = "null"
              \/ row.timestamp.kind = "string" /\ ~row.timestamp.valid
              \/ /\ ds = "nodepool_state"
                 /\ \/ Negative(row.capacity_gpu_count)
                    \/ Negative(row.allocatable_gpu_count)
                    \/ RGt(row.allocatable_gpu_count, row.capacity_gpu_count)
              \/ /\ ds = "kueue_metrics"
                 /\ \E c \in DemandColumns : Negative(row[c])
              \/ /\ ds = "dcgm_metrics"
                 /\ \/ OutOfRange(row.gpu_utilization_pct, MaxPct)
                    \/ /\ "tensor_active_pct" \in t.columns
                       /\ OutOfRange(row.tensor_active_pct, MaxPct)
                    \/ Negative(row.power_usage_watts)
                    \/ Negative(row.memory_used_mb)
                    \/ Negative(row.memory_free_mb)
                    \/ OutOfRange(row.gpu_temp_celsius, MaxTempCelsius)

FirstViolation ==
    LET n == validate_nodepool_data(datasets.nodepool_state)
        k == validate_kueue_data(datasets.kueue_metrics)
    IN  IF n # NoMessage THEN n
        ELSE IF k # NoMessage THEN k
        ELSE validate_dcgm_data(datasets.dcgm_metrics)

\* C16: validate_all and generate_synthetic_data end with the
\* ValidationError of the first rejected table in the order nodepool, kueue,
\* dcgm, and return only when all three tables pass; generate_synthetic_data
\* has written no file and returned nothing when a table is rejected, and
\* has written the three CSV files and the manifest when it returns.
C16_FailFast ==
    entry \in {"validate_all", "generate_synthetic_data"} =>
        /\ pc = "done" =>
              /\ raised = "ValidationError" <=> FirstViolation # NoMessage
              /\ raised = "ValidationError" => message = FirstViolation
              /\ returned <=> FirstViolation = NoMessage
        /\ files # {} => FirstViolation = NoMessage
        /\ raised = "ValidationError" => files = {} /\ ~returned
        /\ returned /\ entry = "generate_synthetic_data" =>
              files = {CsvFiles[i] : i \in DOMAIN CsvFiles} \cup {"manifest.json"}

C16_Witness ==
    /\ entry = "generate_synthetic_data" /\ pc = "done"
    /\ validate_nodepool_data(datasets.nodepool_state) = NoMessage
    /\ validate_kueue_data(datasets.kueue_metrics) # NoMessage
    /\ validate_dcgm_data(datasets.dcgm_metrics) # NoMessage
    /\ raised = "ValidationError" /\ message.dataset = "kueue_metrics"
    /\ files = {} /\ ~returned

\* the timestamps of some group are not in non-decreasing order
NonMonotonic(t) ==
    \E i, j \in 1..Len(t.rows) :
        /\ i < j
        /\ t.rows[i].nodegroup = t.rows[j].nodegroup
        /\ t.rows[i].timestamp.valid /\ t.rows[j].timestamp.valid
        /\ t.rows[i].timestamp.at > t.rows[j].timestamp.at

\* C17: a validator rejects with ValidationError a table in which the
\* timestamps of some group are not in non-decreasing order.
C17_NonMonotonicRejected ==
    entry \in Validators /\ pc = "done" /\ NonMonotonic(datasets[DatasetOf(entry)])
        => raised = "ValidationError"

(***************************************************************************)
(* Efficiency Calculator: fallback spec, gap and memory pressure           *)
(***************************************************************************)
\* C18: a sample whose gpu_model is not in GPU_SPECS raises nothing and is
\* processed with max_power 400 and achievable throughput 100 throughout:
\* PIF = clip(power / 400, 0, 1), realized = 100 * PIF and
\* RFU = clip(realized / 100 * 100, 0, 100).
C18_UnknownModelDefaults ==
    pc = "done" =>
        /\ raised = "none"
        /\ \A i \in 1..Len(out_df) :
              LET row == out_df[i]
              IN  row.gpu_model \notin DOMAIN GPU_SPECS =>
                      /\ row.power_intensity_factor
                            = Clip(RDiv(row.power_usage_watts, R(400)), R(0), R(1))
                      /\ row.realized_tflops
                            = RMul(R(100), row.power_intensity_factor)
                      /\ row.rfu_pct
                            = Clip(RMul(RDiv(row.realized_tflops, R(100)), R(100)),
                                   R(0), R(100))

C18_Witness ==
    /\ pc = "done" /\ raised = "none"
    /\ \E i \in 1..Len(out_df) :
          /\ out_df[i].gpu_model = "NVIDIA T4"
          /\ out_df[i].power_usage_watts = R(200)
          /\ out_df[i].power_intensity_factor = Rat(1, 2)
          /\ out_df[i].realized_tflops = R(50)
          /\ out_df[i].rfu_pct = R(50)

\* C19: efficiency_gap is utilization - RFU in every row, unclipped:
\* negative when RFU exceeds utilization (50 - 60 = -10), 0 when they are
\* equal; add_efficiency_metrics stores that value.
C19_GapUnclipped ==
    /\ calculate_efficiency_gap(<<R(50), R(70)>>, <<R(60), R(70)>>) = <<R(-10), R(0)>>
    /\ pc = "done" =>
          \A i \in 1..Len(out_df) :
              LET row == out_df[i]
              IN  /\ row.efficiency_gap = RSub(row.gpu_utilization_pct, row.rfu_pct)
                  /\ RGt(row.rfu_pct, row.gpu_utilization_pct) =>
                        RLt(row.efficiency_gap, R(0))
                  /\ row.rfu_pct = row.gpu_utilization_pct =>
                        row.efficiency_gap = R(0)

C19_Witness ==
    /\ pc = "done"
    /\ \E i \in 1..Len(out_df) :
          /\ out_df[i].gpu_utilization_pct = R(50)
          /\ out_df[i].rfu_pct = R(100)
          /\ out_df[i].efficiency_gap = R(-50)

\* C20: memory_pressure_pct is used / (used + free) * 100, within [0, 100],
\* for non-negative used and free with a positive sum, and 0, with nothing
\* raised, when both are zero.
C20_MemoryPressure ==
    pc = "done" =>
        \A i \in 1..Len(out_df) :
            LET row == out_df[i]
                total == RAdd(row.memory_used_mb, row.memory_free_mb)
            IN  /\ RGe(row.memory_used_mb, R(0)) /\ RGe(row.memory_free_mb, R(0))
                   /\ RGt(total, R(0)) =>
                      /\ row.memory_pressure_pct
                            = RMul(RDiv(row.memory_used_mb, total), R(100))
                      /\ RGe(row.memory_pressure_pct, R(0))
                      /\ RLe(row.memory_pressure_pct, R(100))
                /\ row.memory_used_mb = R(0) /\ row.memory_free_mb = R(0) =>
                      row.memory_pressure_pct = R(0) /\ raised = "none"

C20_Witness ==
    /\ pc = "done" /\ raised = "none"
    /\ \E i \in 1..Len(out_df) :
          /\ out_df[i].memory_used_mb = R(0)
          /\ out_df[i].memory_free_mb = R(0)
          /\ out_df[i].memory_pressure_pct = R(0)

(***************************************************************************)
(* Capacity at or below the usage                                          *)
(***************************************************************************)
\* C27: in the table of calculate_all_imbalance_metrics available_capacity is
\* never negative; where allocatable and usage are both known it is
\* max(0, allocatable - usage) and the DCR is defined and not negative; and a
\* record with available_capacity = 0 and at least one pending workload has
\* DCR = pending / epsilon > 2.0 and is Critical.
C27_ZeroCapacityCritical ==
    Scored =>
        \A i \in 1..Len(result) :
            LET r == result[i]
            IN  /\ ~RLt(r.available_capacity, R(0))
                /\ ~IsNaN(r.allocatable_gpu_count) /\ ~IsNaN(r.resource_usage) =>
                      /\ r.available_capacity =
                            IF RGt(r.resource_usage, r.allocatable_gpu_count)
                            THEN R(0)
                            ELSE RSub(r.allocatable_gpu_count, r.resource_usage)
                      /\ RGe(r.demand_capacity_ratio, R(0))
                /\ REq(r.available_capacity, R(0))
                      /\ RGe(r.pending_workloads, R(1)) =>
                      /\ REq(r.demand_capacity_ratio,
                             RDiv(r.pending_workloads, Epsilon))
                      /\ RGt(r.demand_capacity_ratio, R(2))
                      /\ r.imbalance_severity = "Critical"

\* usage 2 on allocatable 1 with 2 pending workloads
C27_Witness ==
    /\ Scored
    /\ \E i \in 1..Len(result) :
          /\ result[i].allocatable_gpu_count = R(1)
          /\ result[i].resource_usage = R(2)
          /\ result[i].available_capacity = R(0)
          /\ result[i].pending_workloads = R(2)
          /\ RGt(result[i].demand_capacity_ratio, R(EpsilonInverse))
          /\ result[i].imbalance_severity = "Critical"
          /\ ~RGt(result[i].composite_imbalance_score, Rat(7, 10))

(***************************************************************************)
(* Records without efficiency telemetry                                    *)
(***************************************************************************)
\* the rows of the scored table whose key has GPU telemetry, in table order
WithTelemetry == SelectSeq(result, LAMBDA r : KeyOf(r) \in KeysOf(dcgm_df))

\* the position in WithTelemetry of row i of the scored table
TelemetryIndex(i) ==
    Cardinality({j \in 1..i : KeyOf(result[j]) \in KeysOf(dcgm_df)})

\* C29: a record whose key has no GPU telemetry keeps a missing
\* efficiency_gap, has a missing composite_imbalance_score, and is labelled
\* by its DCR alone (Critical above 2.0, Warning above 1.0, else Healthy,
\* never Moderate); the score of every other record uses the gap normalized
\* over the records that have telemetry only.
C29_NoTelemetry ==
    Scored =>
        LET norm_dcr ==
                normalize_series(Column(result, "demand_capacity_ratio"), "minmax", 0)
            gaps == Column(WithTelemetry, "efficiency_gap")
            norm_gap ==
                normalize_series([k \in 1..Len(gaps) |-> ClipLower(gaps[k], R(0))],
                                 "minmax", 0)
        IN  \A i \in 1..Len(result) :
                IF KeyOf(result[i]) \notin KeysOf(dcgm_df)
                THEN /\ IsNaN(result[i].efficiency_gap)
                     /\ IsNaN(result[i].composite_imbalance_score)
                     /\ result[i].imbalance_severity =
                           IF RGt(result[i].demand_capacity_ratio, R(2))
                           THEN "Critical"
                           ELSE IF RGt(result[i].demand_capacity_ratio, R(1))
                           THEN "Warning"
                           ELSE "Healthy"
                ELSE result[i].composite_imbalance_score =
                         RAdd(RAdd(RMul(dcr_weight, norm_dcr[i]),
                                   RMul(gap_weight, norm_gap[TelemetryIndex(i)])),
                              RMul(qps_weight, result[i].queue_pressure_score))

\* a record without telemetry at DCR 2/(1 + epsilon), next to a scored record
C29_Witness ==
    /\ Scored
    /\ \E i, j \in 1..Len(result) :
          /\ KeyOf(result[i]) \notin KeysOf(dcgm_df)
          /\ RGt(result[i].demand_capacity_ratio, R(1))
          /\ RLt(result[i].demand_capacity_ratio, R(2))
          /\ result[i].imbalance_severity = "Warning"
          /\ KeyOf(result[j]) \in KeysOf(dcgm_df)
          /\ RGt(result[j].efficiency_gap, R(0))
          /\ ~IsNaN(result[j].composite_imbalance_score)

(***************************************************************************)
(* The order of the severity labels                                        *)
(***************************************************************************)
SeverityRank(label) ==
    CASE label = "Healthy" -> 0
      [] label = "Moderate" -> 1
      [] label = "Warning" -> 2
      [] label = "Critical" -> 3

\* C30: under Healthy < Moderate < Warning < Critical the label is monotone:
\* a row whose CIS and DCR are both at most those of another row has a label
\* at most that of the other row (so raising one signal alone never lowers
\* the label), and a row is labelled Moderate only when its DCR <= 1.0.
C30_SeverityMonotone ==
    pc = "done" =>
        /\ \A i, j \in 1..Len(severity) :
              RLe(cis[i], cis[j]) /\ RLe(dcr[i], dcr[j]) =>
                  SeverityRank(severity[i]) <= SeverityRank(severity[j])
        /\ \A i \in 1..Len(severity) :
              severity[i] = "Moderate" => RLe(dcr[i], R(1))

C30_Witness ==
    /\ pc = "done"
    /\ Len(severity) = 2
    /\ RLt(cis[1], cis[2]) /\ REq(dcr[1], dcr[2])
    /\ severity[1] = "Moderate" /\ severity[2] = "Warning"
    /\ REq(dcr[1], R(1))

(***************************************************************************)
(* aggregate_to_hourly applied to a demand table, and applied again to     *)
(* its own output with the bucket column as the time column.  The rows     *)
(* may lack a count or a wait time; the times lie in two hours, one of     *)
(* them on the hour.                                                       *)
(***************************************************************************)
MaxHourlyRows == 2

HourlyTimestamps == {0, 30, 90}

HourlyRows ==
    {[timestamp |-> ts, nodegroup |-> g,
      pending_workloads |-> p, admission_wait_time_seconds |-> w,
      admitted_active_workloads |-> R(1), resource_usage |-> R(1),
      evicted_workloads_total |-> R(0)] :
        ts \in HourlyTimestamps, g \in Nodegroups,
        p \in {NaN, R(2)}, w \in {NaN, R(30)}}

InitHourly ==
    /\ pc = "aggregate_to_hourly" /\ raised = "none"
    /\ NoGen /\ NoStage /\ NoEff /\ NoClass /\ NoNorm /\ NoQps /\ NoScore
    /\ severity = <<>> /\ available_capacity = <<>>
    /\ dcgm_df = <<>> /\ nodepool_df = <<>> /\ result = <<>>
    /\ kueue_df \in SeriesOf(HourlyRows, 0, MaxHourlyRows)

\* aggregate_to_hourly(kueue_df, 'timestamp', ['nodegroup'], agg_config):
\* the function works on a copy of its argument
AggregateToHourly ==
    /\ pc = "aggregate_to_hourly"
    /\ result' = aggregate_to_hourly(kueue_df, "timestamp", KueueHourly)
    /\ pc' = "aggregate_again"
    /\ UNCHANGED <<raised, effVars, classVars, normVars, qpsVars, scoreVars,
                   severity, available_capacity, kueue_df, dcgm_df, nodepool_df,
                   genVars, stageVars>>

\* aggregate_to_hourly(hourly, 'timestamp_hour', ['nodegroup'], agg_config)
AggregateAgain ==
    /\ pc = "aggregate_again"
    /\ hourly_again' = aggregate_to_hourly(result, "timestamp_hour", KueueHourly)
    /\ pc' = "done"
    /\ UNCHANGED <<raised, effVars, classVars, normVars, qpsVars, scoreVars,
                   severity, available_capacity, pipeVars, genVars, rankVars,
                   cfgVars, poolVars>>

NextHourly == AggregateToHourly \/ AggregateAgain
SpecHourly == InitHourly /\ [][NextHourly]_vars

SameCell(a, b) == (IsNaN(a) /\ IsNaN(b)) \/ REq(a, b)

\* the table has one row for each (timestamp, nodegroup) and every
\* timestamp is on the hour
OnePerBucket(t) ==
    /\ \A i \in DOMAIN t : t[i].timestamp % MinutesPerHour = 0
    /\ \A i, j \in DOMAIN t :
           (t[i].timestamp = t[j].timestamp /\ t[i].nodegroup = t[j].nodegroup)
               => i = j

\* the row of the hourly table for the bucket and group of an input row
HourlyRowOf(row) ==
    CHOOSE r \in {result[i] : i \in DOMAIN result} :
        r.timestamp_hour = row.timestamp /\ r.nodegroup = row.nodegroup

\* C22 as stated: aggregating any table that is already one row per (hour
\* bucket, group), the bucket column being the time column, returns the same
\* keys and the same values.
C22_AnyBucketedTableUnchanged ==
    (pc # "aggregate_to_hourly" /\ OnePerBucket(kueue_df)) =>
        /\ {<<r.timestamp_hour, r.nodegroup>> : r \in {result[i] : i \in DOMAIN result}}
               = {<<r.timestamp, r.nodegroup>> : r \in {kueue_df[i] : i \in DOMAIN kueue_df}}
        /\ \A i \in DOMAIN kueue_df : \A c \in DOMAIN KueueHourly :
               SameCell(HourlyRowOf(kueue_df[i])[c], kueue_df[i][c])

\* C22: flooring an hour bucket returns the bucket; aggregating the output of
\* aggregate_to_hourly again returns the same rows; aggregating a table that
\* is already one row per (hour bucket, group) returns the same keys and the
\* same values, except that a missing value of a summed column becomes 0.
C22_HourlyIdempotent ==
    /\ \A i \in DOMAIN result :
           HourFloor(result[i].timestamp_hour) = result[i].timestamp_hour
    /\ pc = "done" =>
           /\ Len(hourly_again) = Len(result)
           /\ \A i \in DOMAIN result :
                  /\ KeyOf(hourly_again[i]) = KeyOf(result[i])
                  /\ \A c \in DOMAIN KueueHourly :
                         SameCell(hourly_again[i][c], result[i][c])
    /\ (pc # "aggregate_to_hourly" /\ OnePerBucket(kueue_df)) =>
           /\ KeysOf(result)
                  = {<<kueue_df[i].timestamp, kueue_df[i].nodegroup>> : i \in DOMAIN kueue_df}
           /\ \A i \in DOMAIN kueue_df : \A c \in DOMAIN KueueHourly :
                  LET x == kueue_df[i][c]
                  IN  SameCell(HourlyRowOf(kueue_df[i])[c],
                               IF KueueHourly[c] = "sum" /\ IsNaN(x) THEN R(0) ELSE x)

\* two raw rows fall in the bucket of the second hour, none of them with a
\* wait time; the hourly table is aggregated again
C22_Witness ==
    /\ pc = "done"
    /\ Len(kueue_df) = 2 /\ Len(result) = 1
    /\ kueue_df[1].timestamp = 90
    /\ result[1].timestamp_hour = 60
    /\ hourly_again[1].timestamp_hour = 60
    /\ REq(hourly_again[1].pending_workloads, R(4))
    /\ IsNaN(hourly_again[1].admission_wait_time_seconds)

(***************************************************************************)
(* identify_top_contributors(imbalance_df, kueue_df, n_top): the scored    *)
(* table grouped by nodegroup, the demand table grouped by queue and by    *)
(* namespace, and DataFrame.nlargest on each.                              *)
(***************************************************************************)
\* the names of nodegroups, queues and namespaces in the order in which
\* pandas sorts them
EntityOrder ==
    <<"batch-training-queue", "ml-inference-a10g", "ml-training",
      "ml-training-a100", "ml-training-h100", "nlp-platform",
      "training-a100-queue", "training-h100-queue">>
EntityRank(name) == CHOOSE i \in DOMAIN EntityOrder : EntityOrder[i] = name

RECURSIVE SortNames(_)
SortNames(S) ==
    IF S = {} THEN <<>>
    ELSE LET first == CHOOSE x \in S : \A o \in S \ {x} : EntityRank(x) < EntityRank(o)
         IN  <<first>> \o SortNames(S \ {first})

\* df.groupby(by).agg(agg_config).reset_index()
GroupBy(t, by, agg_config) ==
    LET names == SortNames({t[i][by] : i \in DOMAIN t})
    IN  [g \in 1..Len(names) |->
            (by :> names[g]) @@
            [c \in DOMAIN agg_config |->
                Reduce(agg_config[c],
                       Column(SelectSeq(t, LAMBDA row : row[by] = names[g]), c))]]

\* whether row i stands before row j when the column is sorted in
\* descending order by a stable sort, the missing values last
Before(t, col, i, j) ==
    IF IsNaN(t[i][col]) THEN IsNaN(t[j][col]) /\ i < j
    ELSE \/ IsNaN(t[j][col])
         \/ RGt(t[i][col], t[j][col])
         \/ REq(t[i][col], t[j][col]) /\ i < j

\* the rows in descending order, equal values in the order of the table
StableDescending(t, col) ==
    [p \in 1..Len(t) |->
        CHOOSE i \in 1..Len(t) :
            Cardinality({j \in 1..Len(t) : Before(t, col, j, i)}) = p - 1]

\* the same with equal values in the reverse order of the table
ReverseDescending(t, col) ==
    [p \in 1..Len(t) |->
        CHOOSE i \in 1..Len(t) :
            Cardinality({j \in 1..Len(t) : Before(t, col, j, i)
                            /\ ~REq(t[i][col], t[j][col])})
            + Cardinality({j \in 1..Len(t) : REq(t[i][col], t[j][col]) /\ j > i})
                = p - 1]

\* the orders Series.sort_values(ascending=False) may give: its default
\* sort is numpy's quicksort, which promises no order among equal values;
\* the missing values come last in the order of the table
DescendingOrders(t, col) ==
    {o \in Permutations(1..Len(t)) :
        \A p, q \in 1..Len(t) :
            p < q =>
                IF IsNaN(t[o[p]][col]) THEN IsNaN(t[o[q]][col]) /\ o[p] < o[q]
                ELSE IsNaN(t[o[q]][col]) \/ RGe(t[o[p]][col], t[o[q]][col])}

\* nlargest that keeps the last of the rows with equal values
nlargest_keep_last(t, n, col) ==
    IF n <= 0 THEN {<<>>}
    ELSE IF n >= Len(t)
         THEN {[p \in 1..Len(t) |-> t[o[p]]] : o \in DescendingOrders(t, col)}
         ELSE {[p \in 1..n |-> t[ReverseDescending(t, col)[p]]]}

\* DataFrame.nlargest(n, col) with keep='first', as the set of tables it may
\* return: nothing for n <= 0; for n >= len(df) the sorted table; otherwise
\* the first n rows of a stable descending sort, the rows with a missing
\* value taken last
nlargest(t, n, col) ==
    IF n <= 0 THEN {<<>>}
    ELSE IF n >= Len(t)
         THEN {[p \in 1..Len(t) |-> t[o[p]]] : o \in DescendingOrders(t, col)}
         ELSE {[p \in 1..n |-> t[StableDescending(t, col)[p]]]}

nodegroup_metrics(t) ==
    GroupBy(t, "nodegroup",
            [composite_imbalance_score |-> "mean", pending_workloads |-> "sum",
             efficiency_gap |-> "mean"])

\* a grouped demand table with its pressure column
WithPressure(g, col) ==
    LET pressure == calculate_queue_pressure_score(
                        Column(g, "pending_workloads"),
                        Column(g, "admission_wait_time_seconds"))
    IN  [i \in 1..Len(g) |-> (col :> pressure[i]) @@ g[i]]

queue_metrics(k) ==
    WithPressure(GroupBy(k, "queue_name",
                         [pending_workloads |-> "sum",
                          admission_wait_time_seconds |-> "mean",
                          admitted_active_workloads |-> "sum"]),
                 "queue_pressure")

namespace_metrics(k) ==
    WithPressure(GroupBy(k, "namespace",
                         [pending_workloads |-> "sum",
                          admission_wait_time_seconds |-> "mean",
                          resource_usage |-> "sum"]),
                 "namespace_pressure")

MaxRankRows == 3   \* most rows of the scored and the demand table together
MaxTop == 3        \* largest n_top

RankNodegroups == {"ml-inference-a10g", "ml-training-a100", "ml-training-h100"}
Queues == {"batch-training-queue", "training-a100-queue"}
Namespaces == {"ml-training", "nlp-platform"}

\* rows of a scored table: the score is missing where the nodegroup has no
\* efficiency telemetry
ScoredRows ==
    {[nodegroup |-> g, composite_imbalance_score |-> c,
      pending_workloads |-> R(1), efficiency_gap |-> R(0)] :
        g \in RankNodegroups, c \in {NaN, Rat(1, 5), Rat(1, 2)}}

QueueRows ==
    {[queue_name |-> q, namespace |-> ns, nodegroup |-> "ml-training-a100",
      pending_workloads |-> p, admission_wait_time_seconds |-> R(30),
      admitted_active_workloads |-> R(1), resource_usage |-> R(1)] :
        q \in Queues, ns \in Namespaces, p \in PendingVals}

InitRank ==
    /\ pc = "identify_top_contributors" /\ raised = "none"
    /\ NoGen /\ NoCfg /\ NoPool /\ NoEff /\ NoClass /\ NoNorm /\ NoQps /\ NoScore
    /\ severity = <<>> /\ available_capacity = <<>> /\ hourly_again = <<>>
    /\ dcgm_df = <<>> /\ nodepool_df = <<>> /\ result = <<>>
    /\ \E a \in 0..MaxRankRows : \E b \in 0..(MaxRankRows - a) :
           /\ imbalance_df \in [1..a -> ScoredRows]
           /\ kueue_df \in [1..b -> QueueRows]
    /\ n_top \in 0..MaxTop
    /\ contributors = <<>>

IdentifyTopContributors ==
    /\ pc = "identify_top_contributors"
    /\ \E top_nodegroups \in
               nlargest(nodegroup_metrics(imbalance_df), n_top,
                        "composite_imbalance_score") :
       \E top_queues \in nlargest(queue_metrics(kueue_df), n_top, "queue_pressure") :
       \E top_namespaces \in
               nlargest(namespace_metrics(kueue_df), n_top, "namespace_pressure") :
           contributors' = [by_nodegroup |-> top_nodegroups,
                            by_queue |-> top_queues,
                            by_namespace |-> top_namespaces]
    /\ pc' = "done"
    /\ UNCHANGED <<raised, effVars, classVars, normVars, qpsVars, scoreVars,
                   severity, available_capacity, pipeVars, genVars,
                   imbalance_df, n_top, hourly_again, cfgVars, poolVars>>

NextRank == IdentifyTopContributors
SpecRank == InitRank /\ [][NextRank]_vars

Ranked == pc = "done" /\ contributors # <<>>

\* the list holds min(n_top, entities) rows of the grouped table, one per
\* entity, in descending order of the metric with the missing values last,
\* and no row left out has a larger metric than a row of the list
IsTopOf(list, grouped, by, col, entities) ==
    /\ Len(list) = IF n_top <= Cardinality(entities) THEN n_top
                   ELSE Cardinality(entities)
    /\ \A p \in DOMAIN list : \E g \in DOMAIN grouped : list[p] = grouped[g]
    /\ \A p, q \in DOMAIN list : p < q =>
           /\ list[p][by] # list[q][by]
           /\ ~RLt(list[p][col], list[q][col])
           /\ IsNaN(list[p][col]) => IsNaN(list[q][col])
    /\ \A g \in DOMAIN grouped :
           (\A p \in DOMAIN list : list[p][by] # grouped[g][by]) =>
               \A p \in DOMAIN list :
                   /\ ~RLt(list[p][col], grouped[g][col])
                   /\ IsNaN(list[p][col]) => IsNaN(grouped[g][col])

\* rows with equal metric stand in the list as they stand in the grouped table
TiesInSourceOrder(list, by, col) ==
    \A p, q \in DOMAIN list :
        (p < q /\ SameCell(list[p][col], list[q][col])) =>
            EntityRank(list[p][by]) < EntityRank(list[q][by])

\* among rows with equal metric the list prefers those that stand first in
\* the grouped table
TiesKeepFirst(list, grouped, by, col) ==
    \A g \in DOMAIN grouped : \A p \in DOMAIN list :
        ((\A q \in DOMAIN list : list[q][by] # grouped[g][by])
            /\ SameCell(list[p][col], grouped[g][col])) =>
                EntityRank(list[p][by]) < EntityRank(grouped[g][by])

NodegroupsOf(t) == {t[i].nodegroup : i \in DOMAIN t}
QueuesOf(t) == {t[i].queue_name : i \in DOMAIN t}
NamespacesOf(t) == {t[i].namespace : i \in DOMAIN t}

MaxGpuSamples == 2   \* most GPU samples of one hour and nodegroup

QueueOf(g) ==
    IF g = "ml-training-a100" THEN "training-a100-queue" ELSE "training-h100-queue"

PipelineKueueRow(sl, p) ==
    [timestamp |-> sl[1], timestamp_hour |-> HourFloor(sl[1]), nodegroup |-> sl[2],
     queue_name |-> QueueOf(sl[2]), namespace |-> "ml-training",
     pending_workloads |-> p, admission_wait_time_seconds |-> R(30),
     admitted_active_workloads |-> R(1), resource_usage |-> R(1),
     evicted_workloads_total |-> R(0)]

\* a DCGM row as generated, without the efficiency metrics
RawDcgmRow(sl, smp) ==
    [timestamp |-> sl[1], timestamp_hour |-> HourFloor(sl[1]), nodegroup |-> sl[2],
     gpu_temp_celsius |-> R(60), tensor_active_pct |-> R(50)] @@ smp

RECURSIVE Flatten(_)
Flatten(tables) ==
    IF tables = <<>> THEN <<>> ELSE Head(tables) \o Flatten(Tail(tables))

SlotOrder == SortKeys(Slots)

InitPipeline ==
    /\ pc = "add_efficiency_metrics" /\ raised = "none"
    /\ NoGen /\ NoCfg /\ NoPool /\ NoClass /\ NoNorm /\ NoQps /\ NoScore
    /\ severity = <<>> /\ available_capacity = <<>> /\ hourly_again = <<>>
    /\ out_df = <<>> /\ dcgm_df = <<>> /\ result = <<>>
    /\ imbalance_df = <<>> /\ contributors = <<>>
    /\ n_top = 3
    /\ inplace \in BOOLEAN
    /\ \E smp \in [DOMAIN SlotOrder -> SeriesOf(GpuProfiles, 0, MaxGpuSamples)] :
           df = Flatten([k \in DOMAIN SlotOrder |->
                            [j \in 1..Len(smp[k]) |-> RawDcgmRow(SlotOrder[k], smp[k][j])]])
    /\ \E p \in [DOMAIN SlotOrder -> SeriesOf(PendingVals, 0, 1)] :
           kueue_df = Flatten([k \in DOMAIN SlotOrder |->
                                  [j \in 1..Len(p[k]) |-> PipelineKueueRow(SlotOrder[k], p[k][j])]])
    /\ nodepool_df = [k \in DOMAIN SlotOrder |-> NodepoolRow(SlotOrder[k], R(2))]

PipelineStages ==
    {"calculate_all_imbalance_metrics", "build_unified_model", "aggregate_to_hourly"}

\* dcgm_df = add_efficiency_metrics(dcgm_df): the name is bound to the
\* returned table; the caller then takes one of the stages that read it
EfficiencyStage ==
    /\ pc = "add_efficiency_metrics"
    /\ out_df' = add_efficiency_metrics(df)
    /\ df' = table_after_add_efficiency_metrics(df, inplace, out_df')
    /\ dcgm_df' = out_df'
    /\ pc' \in PipelineStages
    /\ UNCHANGED <<raised, inplace, classVars, normVars, qpsVars, scoreVars,
                   severity, available_capacity, kueue_df, nodepool_df, result,
                   genVars, stageVars>>

\* imbalance_df = calculate_all_imbalance_metrics(kueue_df, dcgm_df, nodepool_df)
ScoringStage ==
    /\ pc = "calculate_all_imbalance_metrics"
    /\ imbalance_df' = calculate_all_imbalance_metrics(kueue_df, dcgm_df, nodepool_df)
    /\ pc' = "identify_top_contributors"
    /\ UNCHANGED <<raised, effVars, classVars, normVars, qpsVars, scoreVars,
                   severity, available_capacity, pipeVars, genVars,
                   n_top, contributors, hourly_again, cfgVars, poolVars>>

\* build_unified_model(kueue_df, dcgm_df, nodepool_df)
UnifyStage ==
    /\ pc = "build_unified_model"
    /\ result' = build_unified_model(kueue_df, dcgm_df, nodepool_df)
    /\ pc' = "done"
    /\ UNCHANGED <<raised, effVars, classVars, normVars, qpsVars, scoreVars,
                   severity, available_capacity, kueue_df, dcgm_df, nodepool_df,
                   genVars, stageVars>>

NextPipeline ==
    \/ EfficiencyStage
    \/ ScoringStage
    \/ IdentifyTopContributors
    \/ UnifyStage
    \/ AggregateToHourly
    \/ AggregateAgain
SpecPipeline == InitPipeline /\ [][NextPipeline]_vars

EfficiencyColumns ==
    {"power_intensity_factor", "realized_tflops", "rfu_pct", "efficiency_gap",
     "memory_pressure_pct", "efficiency_class"}

\* C24: no stage changes a table it is given: the demand and the capacity
\* table never change; the table with the efficiency metrics, the scored
\* table and the hourly table do not change once they exist (while they are
\* scored, joined, ranked or aggregated); add_efficiency_metrics
\* leaves the caller's table as it is unless inplace is passed, and then adds
\* its six columns to it and changes no other column.
C24_InputsUnchanged ==
    [][/\ kueue_df' = kueue_df
       /\ nodepool_df' = nodepool_df
       /\ pc # "add_efficiency_metrics" => dcgm_df' = dcgm_df /\ df' = df
       /\ pc = "identify_top_contributors" => imbalance_df' = imbalance_df
       /\ pc = "aggregate_again" => result' = result
       /\ pc = "add_efficiency_metrics" =>
              /\ Len(df') = Len(df)
              /\ ~inplace => df' = df
              /\ \A i \in DOMAIN df :
                     /\ \A c \in DOMAIN df[i] : df'[i][c] = df[i][c]
                     /\ inplace => DOMAIN df'[i] = DOMAIN df[i] \cup EfficiencyColumns
                     /\ DOMAIN out_df'[i] = DOMAIN df[i] \cup EfficiencyColumns
                     /\ \A c \in DOMAIN df[i] : out_df'[i][c] = df[i][c]]_vars

\* a table of three GPU samples went through add_efficiency_metrics without
\* inplace and through the scoring and the ranking, and is still as it was
C24_Witness ==
    /\ pc = "done"
    /\ ~inplace
    /\ Len(df) = 3
    /\ \A i \in DOMAIN df : "efficiency_gap" \notin DOMAIN df[i]
    /\ \A i \in DOMAIN dcgm_df : "efficiency_gap" \in DOMAIN dcgm_df[i]
    /\ Len(imbalance_df) = 2
    /\ contributors # <<>>

(***************************************************************************)
(* Negative efficiency gaps in the full pipeline                           *)
(***************************************************************************)
PipelineScored == imbalance_df # <<>>

\* the efficiency table with the gap of one sample replaced by 0
WithGapZero(t, i) == [t EXCEPT ![i] = [t[i] EXCEPT !.efficiency_gap = R(0)]]

\* C28: replacing the negative gap of one GPU sample by 0 in the efficiency
\* table leaves the composite imbalance score of the sample's (hour,
\* nodegroup) record unchanged.
C28_NegativeSampleIgnored ==
    PipelineScored =>
        \A i \in DOMAIN dcgm_df :
            RLt(dcgm_df[i].efficiency_gap, R(0)) =>
                LET other == calculate_all_imbalance_metrics(
                                 kueue_df, WithGapZero(dcgm_df, i), nodepool_df)
                IN  \A r \in DOMAIN imbalance_df :
                        KeyOf(imbalance_df[r]) = KeyOf(dcgm_df[i]) =>
                            SameCell(other[r].composite_imbalance_score,
                                     imbalance_df[r].composite_imbalance_score)

(***************************************************************************)
(* get_scenario_config(scenario_name) of generators/scenarios.py, and the  *)
(* configuration errors: a call is either get_scenario_config or           *)
(* normalize_series.                                                       *)
(***************************************************************************)
\* the descriptions are shortened; a high_demand_queues of None is the empty list
SCENARIOS ==
    [balanced |->
        [description |-> "Demand roughly matches capacity.",
         demand_capacity_ratio |-> Rat(7, 10), base_wait_seconds |-> R(45),
         active_ratio |-> Rat(75, 100), eviction_rate |-> Rat(1, 100),
         autoscale_variance |-> Rat(5, 100), workload_profile |-> "balanced",
         high_demand_queues |-> <<>>],
     demand_exceeds_capacity |->
        [description |-> "More workloads submitted than can be scheduled.",
         demand_capacity_ratio |-> Rat(18, 10), base_wait_seconds |-> R(300),
         active_ratio |-> Rat(95, 100), eviction_rate |-> Rat(5, 100),
         autoscale_variance |-> Rat(2, 100), workload_profile |-> "efficient",
         high_demand_queues |-> <<"ml-training-h100", "ml-training-a100">>],
     capacity_fragmentation |->
        [description |-> "GPUs exist but cannot be effectively scheduled.",
         demand_capacity_ratio |-> Rat(9, 10), base_wait_seconds |-> R(180),
         active_ratio |-> Rat(45, 100), eviction_rate |-> Rat(8, 100),
         autoscale_variance |-> Rat(10, 100), workload_profile |-> "fragmented",
         high_demand_queues |-> <<>>],
     io_bottleneck |->
        [description |-> "GPUs report high utilization but low power draw.",
         demand_capacity_ratio |-> Rat(6, 10), base_wait_seconds |-> R(30),
         active_ratio |-> Rat(85, 100), eviction_rate |-> Rat(2, 100),
         autoscale_variance |-> Rat(3, 100), workload_profile |-> "bottlenecked",
         high_demand_queues |-> <<>>]]

\* an unknown name answered with the configuration of 'balanced'
scenario_config_or_balanced(name) ==
    IF name \notin DOMAIN SCENARIOS
    THEN [raised |-> "none", value |-> SCENARIOS["balanced"]]
    ELSE [raised |-> "none", value |-> SCENARIOS[name]]

\* the outcome of get_scenario_config: the exception raised, or the copy of
\* the scenario's dictionary
get_scenario_config(name) ==
    IF name \notin DOMAIN SCENARIOS
    THEN [raised |-> "ValueError", value |-> <<>>]
    ELSE [raised |-> "none", value |-> SCENARIOS[name]]

ScenarioNames ==
    DOMAIN SCENARIOS \cup {"", "Balanced", "balanced ", "nonexistent_scenario"}

InitScenario ==
    /\ pc = "get_scenario_config" /\ raised = "none"
    /\ NoEff /\ NoClass /\ NoNorm /\ NoQps /\ NoScore /\ severity = <<>>
    /\ available_capacity = <<>> /\ NoPipe /\ NoGen
    /\ NoRank /\ hourly_again = <<>> /\ NoPool
    /\ scenario_name \in ScenarioNames
    /\ config = <<>>

InitConfig == InitScenario \/ InitNormalize

GetScenarioReturn ==
    /\ pc = "get_scenario_config"
    /\ get_scenario_config(scenario_name).raised = "none"
    /\ config' = get_scenario_config(scenario_name).value
    /\ entry' = "get_scenario_config"
    /\ pc' = "done"
    /\ UNCHANGED <<raised, effVars, classVars, normVars, qpsVars, scoreVars,
                   severity, available_capacity, pipeVars, datasets, files,
                   message, returned, rankVars, hourly_again, scenario_name,
                   poolVars>>

GetScenarioRaise ==
    /\ pc = "get_scenario_config"
    /\ get_scenario_config(scenario_name).raised # "none"
    /\ raised' = get_scenario_config(scenario_name).raised
    /\ entry' = "get_scenario_config"
    /\ pc' = "done"
    /\ UNCHANGED <<effVars, classVars, normVars, qpsVars, scoreVars,
                   severity, available_capacity, pipeVars, datasets, files,
                   message, returned, stageVars>>

NextConfig ==
    \/ GetScenarioReturn
    \/ GetScenarioRaise
    \/ NormalizeReturn
    \/ NormalizeRaise
SpecConfig == InitConfig /\ [][NextConfig]_vars

\* C25: a finished get_scenario_config call has raised ValueError exactly
\* when its argument is none of the four scenario names, and otherwise has
\* returned a configuration with demand_capacity_ratio, base_wait_seconds
\* and workload_profile; a finished normalize_series call has raised
\* ValueError exactly when its method is neither 'minmax' nor 'percentile',
\* whatever the series and the window; no other error is raised.
C25_ConfigErrors ==
    /\ raised \in {"none", "ValueError"}
    /\ (pc = "done" /\ entry = "get_scenario_config") =>
           /\ raised = "ValueError" <=>
                  scenario_name \notin {"balanced", "demand_exceeds_capacity",
                                        "capacity_fragmentation", "io_bottleneck"}
           /\ raised = "ValueError" => config = <<>>
           /\ raised = "none" =>
                  {"demand_capacity_ratio", "base_wait_seconds", "workload_profile"}
                      \subseteq DOMAIN config
    /\ (pc = "done" /\ entry = "") =>
           /\ raised = "ValueError" <=> method \notin {"minmax", "percentile"}
           /\ raised = "ValueError" => normalized = <<>>

\* an unknown scenario name has raised ValueError
C25_Witness ==
    /\ pc = "done" /\ entry = "get_scenario_config"
    /\ scenario_name = "nonexistent_scenario"
    /\ raised = "ValueError"
    /\ config = <<>>

(***************************************************************************)
(* generate_nodepool_state(nodegroups, timestamps, rng, scenario_config)   *)
(* of generators/synthetic_generator.py, followed by the validation of     *)
(* its table.  A draw of rng.uniform(-scale_factor, scale_factor) is       *)
(* scale_factor times one of the fractions of Draws.                       *)
(***************************************************************************)
MaxNodegroups == 2   \* most nodegroup configurations of a call
MaxTimestamps == 2   \* most timestamps of a call

\* two entries of NODEGROUP_CONFIGS and a nodegroup of a single GPU
NodegroupConfigs ==
    {[name |-> "ml-training-h100", gpu_model |-> "NVIDIA H100 80GB HBM3",
      gpu_count |-> 32, cluster |-> "gen-ai-cluster-1", region |-> "us-west-2"],
     [name |-> "ml-training-a100", gpu_model |-> "NVIDIA A100-SXM4-40GB",
      gpu_count |-> 48, cluster |-> "gen-ai-cluster-1", region |-> "us-west-2"],
     [name |-> "edge-t4", gpu_model |-> "NVIDIA T4",
      gpu_count |-> 1, cluster |-> "gen-ai-cluster-2", region |-> "us-east-1"]}

\* the scenario dictionaries, a dictionary without autoscale_variance and
\* one whose variance exceeds 1
ScenarioConfigs ==
    {SCENARIOS[n] : n \in DOMAIN SCENARIOS}
    \cup {[workload_profile |-> "balanced"],
          [workload_profile |-> "balanced", autoscale_variance |-> R(2)]}

Draws == {-1, 0, 1}

DefaultAutoscaleVariance == Rat(5, 100)
AllocatablePct == 95

\* scenario_config.get(key, default)
ConfigGet(cfg, key, default) == IF key \in DOMAIN cfg THEN cfg[key] ELSE default

\* int(x) of Python for the fraction n / d: the fraction is cut towards zero
IntOf(n, d) == IF n >= 0 THEN n \div d ELSE -((-n) \div d)

\* the scale factor is a cell <<n, d>>, and 1 + u * n/d is (d + u * n) / d

\* the scaled count without the lower bound of 1
actual_count_unbounded(base_count, scale_factor, u) ==
    IntOf(base_count * (scale_factor[2] + u * scale_factor[1]), scale_factor[2])

\* max(1, int(base_count * (1 + rng.uniform(-scale_factor, scale_factor))))
actual_count(base_count, scale_factor, u) ==
    LET scaled == IntOf(base_count * (scale_factor[2] + u * scale_factor[1]),
                        scale_factor[2])
    IN  IF scaled >= 1 THEN scaled ELSE 1

\* pd.DataFrame(records): one record for each timestamp and nodegroup, the
\* timestamps outermost; without records the table has no columns
generate_nodepool_state(ngs, tss, draws, cfg) ==
    LET scale_factor == ConfigGet(cfg, "autoscale_variance", DefaultAutoscaleVariance)
        Record(ts, ng, u) ==
            LET count == actual_count(ng.gpu_count, scale_factor, u)
            IN  [timestamp |-> Datetime(ts), timestamp_hour |-> HourFloor(ts),
                 nodegroup |-> ng.name, cluster |-> ng.cluster, region |-> ng.region,
                 gpu_model |-> ng.gpu_model,
                 capacity_gpu_count |-> R(count),
                 allocatable_gpu_count |-> R(IntOf(count * AllocatablePct, 100))]
        records ==
            [n \in 1..(Len(tss) * Len(ngs)) |->
                Record(tss[((n - 1) \div Len(ngs)) + 1],
                       ngs[((n - 1) % Len(ngs)) + 1], draws[n])]
    IN  [columns |-> IF records = <<>> THEN {} ELSE DOMAIN records[1],
         rows |-> records]

\* the lists of distinct configurations
NodegroupLists ==
    UNION {{l \in [1..n -> NodegroupConfigs] :
                \A i, j \in 1..n : l[i] = l[j] => i = j} : n \in 1..MaxNodegroups}

InitPool ==
    /\ pc = "generate_nodepool_state" /\ raised = "none"
    /\ NoEff /\ NoClass /\ NoNorm /\ NoQps /\ NoScore /\ severity = <<>>
    /\ available_capacity = <<>> /\ NoPipe /\ NoGen
    /\ NoRank /\ hourly_again = <<>> /\ NoCfg
    /\ nodegroups \in NodegroupLists
    /\ \E n \in 0..MaxTimestamps : timestamps = [i \in 1..n |-> (i - 1) * MinutesPerHour]
    /\ scenario_config \in ScenarioConfigs

GenerateNodepoolState ==
    /\ pc = "generate_nodepool_state"
    /\ \E draws \in [1..(Len(timestamps) * Len(nodegroups)) -> Draws] :
           nodepool_df' = generate_nodepool_state(nodegroups, timestamps, draws,
                                                  scenario_config)
    /\ pc' = "validate_nodepool_data"
    /\ UNCHANGED <<raised, effVars, classVars, normVars, qpsVars, scoreVars,
                   severity, available_capacity, kueue_df, dcgm_df, result,
                   genVars, stageVars>>

\* validate_nodepool_data(nodepool_df)
ValidateGenerated ==
    /\ pc = "validate_nodepool_data"
    /\ message' = validate_nodepool_data(nodepool_df)
    /\ raised' = IF message' = NoMessage THEN "none" ELSE "ValidationError"
    /\ pc' = "done"
    /\ UNCHANGED <<effVars, classVars, normVars, qpsVars, scoreVars,
                   severity, available_capacity, pipeVars, entry, datasets, files,
                   returned, stageVars>>

NextPool == GenerateNodepoolState \/ ValidateGenerated
SpecPool == InitPool /\ [][NextPool]_vars

Generated == pc # "generate_nodepool_state"

\* every generated row has a capacity of at least 1 and an allocatable
\* count between 0 and the capacity
CountsInRange ==
    \A i \in DOMAIN nodepool_df.rows :
        LET row == nodepool_df.rows[i]
        IN  /\ RGe(row.capacity_gpu_count, R(1))
            /\ RGe(row.allocatable_gpu_count, R(0))
            /\ RLe(row.allocatable_gpu_count, row.capacity_gpu_count)

CountCheckTexts ==
    {"capacity_gpu_count contains negative values",
     "allocatable_gpu_count contains negative values",
     "allocatable_gpu_count exceeds capacity_gpu_count"}

====
